---- MODULE Spec2Model ----
(***************************************************************************)
(* State-machine model of the RealEstateBondFHE contract                   *)
(* (src/unnamed/part_000): access control, batch lifecycle, the encrypted  *)
(* submission ledger and the decryption request/callback protocol.         *)
(*                                                                         *)
(* One action per external entry point.  The outcome of a call is "ok" or  *)
(* the error it reverts with, computed by the <entry point>Result          *)
(* operators in the order of the code's checks.  A call that reverts        *)
(* leaves no trace in the chain state (EVM revert): it is a stuttering      *)
(* step.                                                                    *)
(***************************************************************************)
EXTENDS Integers, Sequences, FiniteSets, TLC

VARIABLES
    owner,                      \* address public owner
    isProvider,                 \* mapping(address => bool)
    lastSubmissionTime,         \* mapping(address => uint256)
    lastDecryptionRequestTime,  \* mapping(address => uint256)
    cooldownSeconds,            \* uint256
    paused,                     \* bool
    decryptionContexts,         \* mapping(uint256 => DecryptionContext)
    batches,                    \* mapping(uint256 => Batch)
    totalEncryptedValue,        \* euint32
    totalEncryptedShares,       \* euint32
    batchEncryptedValue,        \* mapping(uint256 => euint32)
    batchEncryptedShares,       \* mapping(uint256 => euint32)
    providerEncryptedValue,     \* mapping(uint256 => mapping(address => euint32))
    providerEncryptedShares,    \* mapping(uint256 => mapping(address => euint32))
    now,                        \* block.timestamp of the next call
    requests,                   \* coprocessor: handle lists received, by request id
    log                         \* event log: the DataSubmitted, DecryptionRequested
                                \* and DecryptionCompleted events emitted, in order

storage == <<owner, isProvider, lastSubmissionTime, lastDecryptionRequestTime,
             cooldownSeconds, paused, decryptionContexts, batches,
             totalEncryptedValue, totalEncryptedShares, batchEncryptedValue,
             batchEncryptedShares, providerEncryptedValue, providerEncryptedShares>>

vars == <<storage, now, requests, log>>

----------------------------------------------------------------------------
(* Bounds of the model. *)

\* block.timestamp advances at most this many times
MaxTicks == 1
\* accepted submitData calls explored
MaxSubmissions == 1
\* decryption requests explored
MaxRequests == 1
\* the same three under a fixed administration (SpecLedger)
LedgerMaxTicks == 1
LedgerMaxSubmissions == 2
LedgerMaxRequests == 2
\* block.timestamp at deployment
StartTime == 1000

(* Program constants. *)

\* cooldownSeconds = 60 in the constructor
InitialCooldown == 60

----------------------------------------------------------------------------
(* Addresses, ids and the inputs the environment tries. *)

Deployer == "deployer"
Addr == {Deployer, "alice"}
This == "RealEstateBondFHE"

\* batch id 0 is the batchId of an empty decryptionContexts slot
BatchIds == {0, 1}
\* request ids: those the coprocessor can hand out within the bounds, and
\* one more that is never issued
RequestIds == 0..(IF MaxRequests > LedgerMaxRequests THEN MaxRequests
                  ELSE LedgerMaxRequests)

\* the time one Tick adds to block.timestamp
TickStep == InitialCooldown

----------------------------------------------------------------------------
(* uint256 arithmetic.  A uint256 within reach of either end of the range   *)
(* is written as its int256 reading: x for small x, x - 2^256 for x close   *)
(* to 2^256 - 1, so that MaxUint256 is -1.                                  *)

MaxUint256 == 0 - 1

\* a + b does not fit in a uint256 (Solidity 0.8 checked addition panics)
AddOverflows(a, b) ==
    \/ a < 0 /\ b < 0
    \/ a < 0 /\ b >= 0 /\ a + b >= 0
    \/ a >= 0 /\ b < 0 /\ a + b >= 0

\* unsigned a < b
ULess(a, b) ==
    IF (a < 0) = (b < 0) THEN a < b ELSE a >= 0

----------------------------------------------------------------------------
(* uint32 plaintexts, as two 16-bit limbs: the value is hi * 2^16 + lo.     *)

Limb == 65536

U32(n) == [hi |-> n \div Limb, lo |-> n % Limb]
MaxUint32 == [hi |-> Limb - 1, lo |-> Limb - 1]

\* the mathematical sum (hi is not reduced)
PlainAdd(a, b) ==
    [hi |-> a.hi + b.hi + ((a.lo + b.lo) \div Limb), lo |-> (a.lo + b.lo) % Limb]

\* the sum reduced modulo 2^32
WrapAdd(a, b) ==
    [hi |-> PlainAdd(a, b).hi % Limb, lo |-> PlainAdd(a, b).lo]

----------------------------------------------------------------------------
(* The coprocessor's encryption primitive (FHE library, spec section 6).    *)
(* A ciphertext handle is the term that produced it: the coprocessor        *)
(* derives a handle from the operation and its operands, so equal handles   *)
(* are equal terms.  The uninitialized handle (bytes32(0)) is <<>>.         *)

Uninit == <<>>

\* FHE.isInitialized
isInitialized(h) == h # Uninit

\* FHE.asEuint32: trivial encryption of a plaintext
asEuint32(v) == <<"enc", v>>

\* FHE.add on euint32: an uninitialized operand is read as an encrypted 0
FHE_add(a, b) ==
    <<"add",
      IF isInitialized(a) THEN a ELSE asEuint32(U32(0)),
      IF isInitialized(b) THEN b ELSE asEuint32(U32(0))>>

\* FHE.toBytes32
toBytes32(h) == h

\* the plaintext the coprocessor decrypts a handle to (euint32 addition wraps)
RECURSIVE Decrypt(_)
Decrypt(h) ==
    IF h = Uninit THEN U32(0)
    ELSE IF h[1] = "enc" THEN h[2]
    ELSE WrapAdd(Decrypt(h[2]), Decrypt(h[3]))

\* the number of homomorphic additions behind a handle
RECURSIVE Depth(_)
Depth(h) ==
    IF h = Uninit THEN 0
    ELSE IF h[1] = "enc" THEN 0
    ELSE 1 + Depth(h[2])

\* the cleartext payload the coprocessor returns for a handle list:
\* abi.encode of the plaintexts, in the order of the handles
Cleartexts(cts) == <<Decrypt(cts[1]), Decrypt(cts[2])>>

\* abi.decode(cleartexts, (uint32, uint32))
abiDecode(cleartexts) == [totalValue |-> cleartexts[1], totalShares |-> cleartexts[2]]

\* the KMS signature over (requestId, cleartexts); the KMS signs only the
\* decryption of the handles it received under that request id
KmsProof(requestId, cleartexts) == <<"kms", requestId, cleartexts>>
Forged == <<"forged">>

\* FHE.checkSignatures
checkSignatures(requestId, cleartexts, proof) ==
    proof = KmsProof(requestId, cleartexts)

----------------------------------------------------------------------------
(* Internal functions of the contract. *)

\* faulty variant: the global total is set to an encrypted zero on every call
_initIfNeeded_Always(h) == asEuint32(U32(0))

\* _initIfNeeded, for one of the two global totals
_initIfNeeded(h) == IF ~isInitialized(h) THEN asEuint32(U32(0)) ELSE h

\* faulty variant: the shares handle comes first
_getCiphertexts_SharesFirst(batchId) ==
    <<toBytes32(batchEncryptedShares[batchId]), toBytes32(batchEncryptedValue[batchId])>>

\* _getCiphertexts
_getCiphertexts(batchId) ==
    <<toBytes32(batchEncryptedValue[batchId]), toBytes32(batchEncryptedShares[batchId])>>

\* faulty variant: the contract's address is left out of the hashed data
keccak256_WithoutAddress(cts, self) == <<"keccak256", cts>>

\* bytes32(0), the stateHash of an empty decryptionContexts slot
ZeroHash == <<>>

\* faulty variant: two uninitialized handles hash to bytes32(0)
keccak256_ZeroOnEmpty(cts, self) ==
    IF cts = <<Uninit, Uninit>> THEN ZeroHash ELSE <<"keccak256", cts, self>>

\* keccak256(abi.encode(cts, address(this))): collision-free, never bytes32(0)
keccak256(cts, self) == <<"keccak256", cts, self>>

\* faulty variant: the commitment leaves the ciphertext handles out
_hashCiphertexts_AddressOnly(batchId) == keccak256(<<>>, This)

\* faulty variant: the commitment also covers the batch's closed flag
_hashCiphertexts_WithClosedFlag(batchId) ==
    keccak256(<<_getCiphertexts(batchId), batches[batchId].closed>>, This)

\* _hashCiphertexts
_hashCiphertexts(batchId) == keccak256(_getCiphertexts(batchId), This)

\* the empty storage slot of decryptionContexts
NoContext == [batchId |-> 0, stateHash |-> ZeroHash, processed |-> FALSE]
NoBatch == [exists |-> FALSE, closed |-> FALSE]

----------------------------------------------------------------------------
(* The state after construction. *)

Init ==
    /\ owner = Deployer
    /\ isProvider = [a \in Addr |-> FALSE]
    /\ lastSubmissionTime = [a \in Addr |-> 0]
    /\ lastDecryptionRequestTime = [a \in Addr |-> 0]
    /\ cooldownSeconds = InitialCooldown
    /\ paused = FALSE
    /\ decryptionContexts = [r \in RequestIds |-> NoContext]
    /\ batches = [b \in BatchIds |-> NoBatch]
    /\ totalEncryptedValue = _initIfNeeded(Uninit)
    /\ totalEncryptedShares = _initIfNeeded(Uninit)
    /\ batchEncryptedValue = [b \in BatchIds |-> Uninit]
    /\ batchEncryptedShares = [b \in BatchIds |-> Uninit]
    /\ providerEncryptedValue = [b \in BatchIds |-> [a \in Addr |-> Uninit]]
    /\ providerEncryptedShares = [b \in BatchIds |-> [a \in Addr |-> Uninit]]
    /\ now = StartTime
    /\ requests = <<>>
    /\ log = <<>>

----------------------------------------------------------------------------
(* Modifiers and the order of checks.  A result is "ok" or the name of the  *)
(* error the call reverts with.                                             *)

\* the first failing check decides
Then(first, rest) == IF first # "ok" THEN first ELSE rest

\* faulty variant: the caller is not compared with the owner
onlyOwner_Anyone(sender) == "ok"

\* modifier onlyOwner
onlyOwner(sender) == IF sender # owner THEN "NotOwner" ELSE "ok"

\* modifier onlyProvider
onlyProvider(sender) == IF ~isProvider[sender] THEN "NotProvider" ELSE "ok"

\* modifier whenNotPaused
whenNotPaused == IF paused THEN "Paused" ELSE "ok"

\* if (block.timestamp < lastTime + cooldownSeconds) revert CooldownActive();
\* the checked addition panics when it overflows
cooldownCheck(lastTime) ==
    IF AddOverflows(lastTime, cooldownSeconds) THEN "Panic"
    ELSE IF ULess(now, lastTime + cooldownSeconds) THEN "CooldownActive"
    ELSE "ok"

----------------------------------------------------------------------------
(* Ownership and admin management. *)

transferOwnershipResult(sender) == onlyOwner(sender)

TransferOwnership(sender, newOwner) ==
    /\ owner' = IF transferOwnershipResult(sender) = "ok"
            THEN newOwner
            ELSE owner
    /\ UNCHANGED <<isProvider, lastSubmissionTime, lastDecryptionRequestTime,
                   cooldownSeconds, paused, decryptionContexts, batches,
                   totalEncryptedValue, totalEncryptedShares,
                   batchEncryptedValue, batchEncryptedShares,
                   providerEncryptedValue, providerEncryptedShares, now,
                   requests, log>>

addProviderResult(sender) == onlyOwner(sender)

\* faulty variant: the flag is toggled
AddProvider_Toggle(sender, provider) ==
    /\ isProvider' = IF addProviderResult(sender) = "ok"
                 THEN [isProvider EXCEPT ![provider] = ~isProvider[provider]]
                 ELSE isProvider
    /\ UNCHANGED <<owner, lastSubmissionTime, lastDecryptionRequestTime,
                   cooldownSeconds, paused, decryptionContexts, batches,
                   totalEncryptedValue, totalEncryptedShares,
                   batchEncryptedValue, batchEncryptedShares,
                   providerEncryptedValue, providerEncryptedShares, now,
                   requests, log>>

AddProvider(sender, provider) ==
    /\ isProvider' = IF addProviderResult(sender) = "ok"
                 THEN [isProvider EXCEPT ![provider] = TRUE]
                 ELSE isProvider
    /\ UNCHANGED <<owner, lastSubmissionTime, lastDecryptionRequestTime,
                   cooldownSeconds, paused, decryptionContexts, batches,
                   totalEncryptedValue, totalEncryptedShares,
                   batchEncryptedValue, batchEncryptedShares,
                   providerEncryptedValue, providerEncryptedShares, now,
                   requests, log>>

removeProviderResult(sender) == onlyOwner(sender)

RemoveProvider(sender, provider) ==
    /\ isProvider' = IF removeProviderResult(sender) = "ok"
                 THEN [isProvider EXCEPT ![provider] = FALSE]
                 ELSE isProvider
    /\ UNCHANGED <<owner, lastSubmissionTime, lastDecryptionRequestTime,
                   cooldownSeconds, paused, decryptionContexts, batches,
                   totalEncryptedValue, totalEncryptedShares,
                   batchEncryptedValue, batchEncryptedShares,
                   providerEncryptedValue, providerEncryptedShares, now,
                   requests, log>>

setCooldownSecondsResult(sender) == onlyOwner(sender)

SetCooldownSeconds(sender, newCooldownSeconds) ==
    /\ cooldownSeconds' = IF setCooldownSecondsResult(sender) = "ok"
                      THEN newCooldownSeconds
                      ELSE cooldownSeconds
    /\ UNCHANGED <<owner, isProvider, lastSubmissionTime,
                   lastDecryptionRequestTime, paused, decryptionContexts,
                   batches, totalEncryptedValue, totalEncryptedShares,
                   batchEncryptedValue, batchEncryptedShares,
                   providerEncryptedValue, providerEncryptedShares, now,
                   requests, log>>

\* faulty variant: pause does not check the pause flag
pauseResult_NoPausedCheck(sender) == onlyOwner(sender)

pauseResult(sender) == Then(onlyOwner(sender), whenNotPaused)

Pause(sender) ==
    /\ paused' = IF pauseResult(sender) = "ok"
             THEN TRUE
             ELSE paused
    /\ UNCHANGED <<owner, isProvider, lastSubmissionTime,
                   lastDecryptionRequestTime, cooldownSeconds,
                   decryptionContexts, batches, totalEncryptedValue,
                   totalEncryptedShares, batchEncryptedValue,
                   batchEncryptedShares, providerEncryptedValue,
                   providerEncryptedShares, now, requests, log>>

\* faulty variant: unpause carries whenNotPaused
unpauseResult_WhenNotPaused(sender) == Then(onlyOwner(sender), whenNotPaused)

unpauseResult(sender) == onlyOwner(sender)

Unpause(sender) ==
    /\ paused' = IF unpauseResult(sender) = "ok"
             THEN FALSE
             ELSE paused
    /\ UNCHANGED <<owner, isProvider, lastSubmissionTime,
                   lastDecryptionRequestTime, cooldownSeconds,
                   decryptionContexts, batches, totalEncryptedValue,
                   totalEncryptedShares, batchEncryptedValue,
                   batchEncryptedShares, providerEncryptedValue,
                   providerEncryptedShares, now, requests, log>>

----------------------------------------------------------------------------
(* Batch lifecycle. *)

\* faulty variant: an existing batch id can be opened again
openBatchResult_NoExistsCheck(sender, batchId) ==
    Then(onlyOwner(sender), whenNotPaused)

openBatchResult(sender, batchId) ==
    Then(onlyOwner(sender),
    Then(whenNotPaused,
         IF batches[batchId].exists THEN "InvalidBatch" ELSE "ok"))

OpenBatch(sender, batchId) ==
    /\ batches' = IF openBatchResult(sender, batchId) = "ok"
                  THEN [batches EXCEPT ![batchId] = [exists |-> TRUE, closed |-> FALSE]]
                  ELSE batches
    /\ UNCHANGED <<owner, isProvider, lastSubmissionTime,
                   lastDecryptionRequestTime, cooldownSeconds, paused,
                   decryptionContexts, totalEncryptedValue,
                   totalEncryptedShares, batchEncryptedValue,
                   batchEncryptedShares, providerEncryptedValue,
                   providerEncryptedShares, now, requests, log>>

\* faulty variant: a closed batch can be closed again
closeBatchResult_NoClosedCheck(sender, batchId) ==
    Then(onlyOwner(sender),
    Then(whenNotPaused,
         IF ~batches[batchId].exists THEN "BatchDoesNotExist" ELSE "ok"))

closeBatchResult(sender, batchId) ==
    Then(onlyOwner(sender),
    Then(whenNotPaused,
         IF ~batches[batchId].exists THEN "BatchDoesNotExist"
         ELSE IF batches[batchId].closed THEN "BatchClosed"
         ELSE "ok"))

CloseBatch(sender, batchId) ==
    /\ batches' = IF closeBatchResult(sender, batchId) = "ok"
                  THEN [batches EXCEPT ![batchId].closed = TRUE]
                  ELSE batches
    /\ UNCHANGED <<owner, isProvider, lastSubmissionTime,
                   lastDecryptionRequestTime, cooldownSeconds, paused,
                   decryptionContexts, totalEncryptedValue,
                   totalEncryptedShares, batchEncryptedValue,
                   batchEncryptedShares, providerEncryptedValue,
                   providerEncryptedShares, now, requests, log>>

----------------------------------------------------------------------------
(* Submission ledger. *)

\* faulty variant: submissions are throttled by the decryption-request time
submitDataResult_SharedCooldown(sender, batchId) ==
    Then(onlyProvider(sender),
    Then(whenNotPaused,
    Then(cooldownCheck(lastDecryptionRequestTime[sender]),
         IF ~batches[batchId].exists THEN "BatchDoesNotExist"
         ELSE IF batches[batchId].closed THEN "BatchClosed"
         ELSE "ok")))

\* faulty variant: a closed batch still accepts submissions
submitDataResult_NoClosedCheck(sender, batchId) ==
    Then(onlyProvider(sender),
    Then(whenNotPaused,
    Then(cooldownCheck(lastSubmissionTime[sender]),
         IF ~batches[batchId].exists THEN "BatchDoesNotExist" ELSE "ok")))

submitDataResult(sender, batchId) ==
    Then(onlyProvider(sender),
    Then(whenNotPaused,
    Then(cooldownCheck(lastSubmissionTime[sender]),
         IF ~batches[batchId].exists THEN "BatchDoesNotExist"
         ELSE IF batches[batchId].closed THEN "BatchClosed"
         ELSE "ok")))

\* faulty variant: the running total is overwritten by the submission
accumulate_Overwrite(total, encrypted) == encrypted

\* faulty variant: adding an encrypted zero leaves the total's handle as it was
accumulate_SkipZero(total, encrypted) ==
    IF Decrypt(encrypted) = U32(0) THEN total ELSE FHE_add(total, encrypted)

\* total = total.add(encrypted), for a batch total or a global total
accumulate(total, encrypted) == FHE_add(total, encrypted)

\* emit DataSubmitted(msg.sender, batchId, encryptedValue, encryptedShares)
DataSubmitted(provider, batchId, encryptedValue, encryptedShares) ==
    [event |-> "DataSubmitted", provider |-> provider, batchId |-> batchId,
     encryptedValue |-> encryptedValue, encryptedShares |-> encryptedShares]

\* faulty variant: the timestamp is written right after the cooldown check and
\* survives a rejection for the batch's state
SubmitData_StampSurvivesRevert(sender, batchId, value, shares) ==
    LET encryptedValue == asEuint32(value)
        encryptedShares == asEuint32(shares)
        result == submitDataResult(sender, batchId)
    IN
    /\ lastSubmissionTime' =
           IF result \in {"ok", "BatchDoesNotExist", "BatchClosed"}
           THEN [lastSubmissionTime EXCEPT ![sender] = now]
           ELSE lastSubmissionTime
    /\ IF result = "ok"
       THEN /\ providerEncryptedValue' =
                   [providerEncryptedValue EXCEPT ![batchId][sender] = encryptedValue]
            /\ providerEncryptedShares' =
                   [providerEncryptedShares EXCEPT ![batchId][sender] = encryptedShares]
            /\ batchEncryptedValue' =
                   [batchEncryptedValue EXCEPT
                       ![batchId] = FHE_add(batchEncryptedValue[batchId], encryptedValue)]
            /\ batchEncryptedShares' =
                   [batchEncryptedShares EXCEPT
                       ![batchId] = FHE_add(batchEncryptedShares[batchId], encryptedShares)]
            /\ totalEncryptedValue' =
                   FHE_add(_initIfNeeded(totalEncryptedValue), encryptedValue)
            /\ totalEncryptedShares' =
                   FHE_add(_initIfNeeded(totalEncryptedShares), encryptedShares)
            /\ log' = Append(log, DataSubmitted(sender, batchId, encryptedValue,
                                                encryptedShares))
       ELSE UNCHANGED <<providerEncryptedValue, providerEncryptedShares,
                        batchEncryptedValue, batchEncryptedShares,
                        totalEncryptedValue, totalEncryptedShares, log>>
    /\ UNCHANGED <<owner, isProvider, lastDecryptionRequestTime, cooldownSeconds,
                   paused, decryptionContexts, batches, now, requests>>

\* faulty variant: a submission that would take the batch's value total past
\* 2^32 - 1 is rejected
SubmitData_RejectsOverflow(sender, batchId, value, shares) ==
    LET encryptedValue == asEuint32(value)
        encryptedShares == asEuint32(shares)
        fits == PlainAdd(Decrypt(batchEncryptedValue[batchId]), value).hi < Limb
    IN
    /\ IF submitDataResult(sender, batchId) = "ok" /\ fits
       THEN /\ lastSubmissionTime' = [lastSubmissionTime EXCEPT ![sender] = now]
            /\ providerEncryptedValue' =
                   [providerEncryptedValue EXCEPT ![batchId][sender] = encryptedValue]
            /\ providerEncryptedShares' =
                   [providerEncryptedShares EXCEPT ![batchId][sender] = encryptedShares]
            /\ batchEncryptedValue' =
                   [batchEncryptedValue EXCEPT
                       ![batchId] = accumulate(batchEncryptedValue[batchId], encryptedValue)]
            /\ batchEncryptedShares' =
                   [batchEncryptedShares EXCEPT
                       ![batchId] = accumulate(batchEncryptedShares[batchId], encryptedShares)]
            /\ totalEncryptedValue' =
                   accumulate(_initIfNeeded(totalEncryptedValue), encryptedValue)
            /\ totalEncryptedShares' =
                   accumulate(_initIfNeeded(totalEncryptedShares), encryptedShares)
            /\ log' = Append(log, DataSubmitted(sender, batchId, encryptedValue,
                                                encryptedShares))
       ELSE UNCHANGED <<lastSubmissionTime, providerEncryptedValue,
                        providerEncryptedShares, batchEncryptedValue,
                        batchEncryptedShares, totalEncryptedValue,
                        totalEncryptedShares, log>>
    /\ UNCHANGED <<owner, isProvider, lastDecryptionRequestTime, cooldownSeconds,
                   paused, decryptionContexts, batches, now, requests>>

SubmitData(sender, batchId, value, shares) ==
    LET encryptedValue == asEuint32(value)
        encryptedShares == asEuint32(shares)
    IN
    /\ IF submitDataResult(sender, batchId) = "ok"
       THEN /\ lastSubmissionTime' = [lastSubmissionTime EXCEPT ![sender] = now]
            /\ providerEncryptedValue' =
                   [providerEncryptedValue EXCEPT ![batchId][sender] = encryptedValue]
            /\ providerEncryptedShares' =
                   [providerEncryptedShares EXCEPT ![batchId][sender] = encryptedShares]
            /\ batchEncryptedValue' =
                   [batchEncryptedValue EXCEPT
                       ![batchId] = accumulate(batchEncryptedValue[batchId], encryptedValue)]
            /\ batchEncryptedShares' =
                   [batchEncryptedShares EXCEPT
                       ![batchId] = accumulate(batchEncryptedShares[batchId], encryptedShares)]
            /\ totalEncryptedValue' =
                   accumulate(_initIfNeeded(totalEncryptedValue), encryptedValue)
            /\ totalEncryptedShares' =
                   accumulate(_initIfNeeded(totalEncryptedShares), encryptedShares)
            /\ log' = Append(log, DataSubmitted(sender, batchId, encryptedValue,
                                                encryptedShares))
       ELSE UNCHANGED <<lastSubmissionTime, providerEncryptedValue,
                        providerEncryptedShares, batchEncryptedValue,
                        batchEncryptedShares, totalEncryptedValue,
                        totalEncryptedShares, log>>
    /\ UNCHANGED <<owner, isProvider, lastDecryptionRequestTime, cooldownSeconds,
                   paused, decryptionContexts, batches, now, requests>>

----------------------------------------------------------------------------
(* Decryption coordinator. *)

\* faulty variant: a closed batch cannot be decrypted
requestBatchDecryptionResult_RejectsClosed(sender, batchId) ==
    Then(onlyOwner(sender),
    Then(whenNotPaused,
    Then(cooldownCheck(lastDecryptionRequestTime[sender]),
         IF ~batches[batchId].exists THEN "BatchDoesNotExist"
         ELSE IF batches[batchId].closed THEN "BatchClosed"
         ELSE "ok")))

\* faulty variant: decryption can be requested while paused
requestBatchDecryptionResult_NoPauseCheck(sender, batchId) ==
    Then(onlyOwner(sender),
    Then(cooldownCheck(lastDecryptionRequestTime[sender]),
         IF ~batches[batchId].exists THEN "BatchDoesNotExist" ELSE "ok"))

requestBatchDecryptionResult(sender, batchId) ==
    Then(onlyOwner(sender),
    Then(whenNotPaused,
    Then(cooldownCheck(lastDecryptionRequestTime[sender]),
         IF ~batches[batchId].exists THEN "BatchDoesNotExist" ELSE "ok")))

\* faulty variant: the coprocessor hands out the id of its latest request again
nextRequestId_Reused == IF requests = <<>> THEN Len(requests) ELSE Len(requests) - 1

\* FHE.requestDecryption: the coprocessor hands out the next unused request id
nextRequestId == Len(requests)

\* emit DecryptionRequested(requestId, batchId, stateHash)
DecryptionRequested(requestId, batchId, stateHash) ==
    [event |-> "DecryptionRequested", requestId |-> requestId, batchId |-> batchId,
     stateHash |-> stateHash]

RequestBatchDecryption(sender, batchId) ==
    LET stateHash == _hashCiphertexts(batchId)
        requestId == nextRequestId
    IN
    /\ IF requestBatchDecryptionResult(sender, batchId) = "ok"
       THEN /\ lastDecryptionRequestTime' =
                   [lastDecryptionRequestTime EXCEPT ![sender] = now]
            /\ requests' = Append(requests, _getCiphertexts(batchId))
            /\ decryptionContexts' =
                   [decryptionContexts EXCEPT
                       ![requestId] = [batchId |-> batchId, stateHash |-> stateHash,
                                       processed |-> FALSE]]
            /\ log' = Append(log, DecryptionRequested(requestId, batchId, stateHash))
       ELSE UNCHANGED <<lastDecryptionRequestTime, requests, decryptionContexts, log>>
    /\ UNCHANGED <<owner, isProvider, lastSubmissionTime, cooldownSeconds, paused,
                   batches, totalEncryptedValue, totalEncryptedShares,
                   batchEncryptedValue, batchEncryptedShares, providerEncryptedValue,
                   providerEncryptedShares, now>>

\* faulty variant: the proof is verified first
myCallbackResult_ProofFirst(requestId, cleartexts, proof) ==
    IF ~checkSignatures(requestId, cleartexts, proof) THEN "InvalidProof"
    ELSE IF decryptionContexts[requestId].processed THEN "ReplayAttempt"
    ELSE IF _hashCiphertexts(decryptionContexts[requestId].batchId)
                # decryptionContexts[requestId].stateHash
    THEN "StateMismatch"
    ELSE "ok"

\* faulty variant: the proof is not verified
myCallbackResult_NoProofCheck(requestId, cleartexts, proof) ==
    IF decryptionContexts[requestId].processed THEN "ReplayAttempt"
    ELSE IF _hashCiphertexts(decryptionContexts[requestId].batchId)
                # decryptionContexts[requestId].stateHash
    THEN "StateMismatch"
    ELSE "ok"

\* faulty variant: the state comparison is inverted
myCallbackResult_InvertedStateCheck(requestId, cleartexts, proof) ==
    IF decryptionContexts[requestId].processed THEN "ReplayAttempt"
    ELSE IF _hashCiphertexts(decryptionContexts[requestId].batchId)
                = decryptionContexts[requestId].stateHash
    THEN "StateMismatch"
    ELSE IF ~checkSignatures(requestId, cleartexts, proof) THEN "InvalidProof"
    ELSE "ok"

\* faulty variant: the processed flag is not checked
myCallbackResult_NoReplayCheck(requestId, cleartexts, proof) ==
    IF _hashCiphertexts(decryptionContexts[requestId].batchId)
           # decryptionContexts[requestId].stateHash
    THEN "StateMismatch"
    ELSE IF ~checkSignatures(requestId, cleartexts, proof) THEN "InvalidProof"
    ELSE "ok"

myCallbackResult(requestId, cleartexts, proof) ==
    IF decryptionContexts[requestId].processed THEN "ReplayAttempt"
    ELSE IF _hashCiphertexts(decryptionContexts[requestId].batchId)
                # decryptionContexts[requestId].stateHash
         THEN "StateMismatch"
    ELSE IF ~checkSignatures(requestId, cleartexts, proof) THEN "InvalidProof"
    ELSE "ok"

\* emit DecryptionCompleted(requestId, ctx.batchId, totalValue, totalShares)
DecryptionCompleted(requestId, batchId, totalValue, totalShares) ==
    [event |-> "DecryptionCompleted", requestId |-> requestId, batchId |-> batchId,
     totalValue |-> totalValue, totalShares |-> totalShares]

\* faulty variant: the decrypted value total is written to the global total
MyCallback_PersistsTotal(sender, requestId, cleartexts, proof) ==
    LET ctx == decryptionContexts[requestId]
        decoded == abiDecode(cleartexts)
        result == myCallbackResult(requestId, cleartexts, proof)
    IN
    /\ decryptionContexts' =
           IF result = "ok"
           THEN [decryptionContexts EXCEPT ![requestId].processed = TRUE]
           ELSE decryptionContexts
    /\ totalEncryptedValue' =
           IF result = "ok" THEN asEuint32(decoded.totalValue) ELSE totalEncryptedValue
    /\ log' = IF result = "ok"
              THEN Append(log, DecryptionCompleted(requestId, ctx.batchId,
                                   decoded.totalValue, decoded.totalShares))
              ELSE log
    /\ UNCHANGED <<owner, isProvider, lastSubmissionTime, lastDecryptionRequestTime,
                   cooldownSeconds, paused, batches,
                   totalEncryptedShares, batchEncryptedValue,
                   batchEncryptedShares, providerEncryptedValue,
                   providerEncryptedShares, now, requests>>

\* faulty variant: the context is marked before the proof is verified, and the mark
\* outlives the InvalidProof failure
MyCallback_MarkSurvivesRevert(sender, requestId, cleartexts, proof) ==
    LET ctx == decryptionContexts[requestId]
        decoded == abiDecode(cleartexts)
        result == myCallbackResult(requestId, cleartexts, proof)
    IN
    /\ decryptionContexts' =
           IF result \in {"ok", "InvalidProof"}
           THEN [decryptionContexts EXCEPT ![requestId].processed = TRUE]
           ELSE decryptionContexts
    /\ log' = IF result = "ok"
              THEN Append(log, DecryptionCompleted(requestId, ctx.batchId,
                                   decoded.totalValue, decoded.totalShares))
              ELSE log
    /\ UNCHANGED <<owner, isProvider, lastSubmissionTime, lastDecryptionRequestTime,
                   cooldownSeconds, paused, batches,
                   totalEncryptedValue, totalEncryptedShares, batchEncryptedValue,
                   batchEncryptedShares, providerEncryptedValue,
                   providerEncryptedShares, now, requests>>

\* faulty variant: an accepted callback marks every context of the batch processed
MyCallback_MarksWholeBatch(sender, requestId, cleartexts, proof) ==
    LET ctx == decryptionContexts[requestId]
        decoded == abiDecode(cleartexts)
    IN
    /\ IF myCallbackResult(requestId, cleartexts, proof) = "ok"
       THEN /\ decryptionContexts' =
                   [r \in RequestIds |->
                       IF decryptionContexts[r].stateHash = ctx.stateHash
                       THEN [decryptionContexts[r] EXCEPT !.processed = TRUE]
                       ELSE decryptionContexts[r]]
            /\ log' = Append(log, DecryptionCompleted(requestId, ctx.batchId,
                                      decoded.totalValue, decoded.totalShares))
       ELSE UNCHANGED <<decryptionContexts, log>>
    /\ UNCHANGED <<owner, isProvider, lastSubmissionTime, lastDecryptionRequestTime,
                   cooldownSeconds, paused, batches,
                   totalEncryptedValue, totalEncryptedShares, batchEncryptedValue,
                   batchEncryptedShares, providerEncryptedValue,
                   providerEncryptedShares, now, requests>>

MyCallback(sender, requestId, cleartexts, proof) ==
    LET ctx == decryptionContexts[requestId]
        decoded == abiDecode(cleartexts)
    IN
    /\ IF myCallbackResult(requestId, cleartexts, proof) = "ok"
       THEN /\ decryptionContexts' =
                   [decryptionContexts EXCEPT ![requestId].processed = TRUE]
            /\ log' = Append(log, DecryptionCompleted(requestId, ctx.batchId,
                                      decoded.totalValue, decoded.totalShares))
       ELSE UNCHANGED <<decryptionContexts, log>>
    /\ UNCHANGED <<owner, isProvider, lastSubmissionTime, lastDecryptionRequestTime,
                   cooldownSeconds, paused, batches,
                   totalEncryptedValue, totalEncryptedShares, batchEncryptedValue,
                   batchEncryptedShares, providerEncryptedValue,
                   providerEncryptedShares, now, requests>>

----------------------------------------------------------------------------
(* The environment: time, callers and what they pass. *)

\* block.timestamp advances
Tick(maxTicks) ==
    /\ now < StartTime + maxTicks * TickStep
    /\ now' = now + TickStep
    /\ UNCHANGED <<storage, requests, log>>

\* cooldown values the owner sets
CooldownChoices == {0, InitialCooldown, MaxUint256}

\* the (value, shares) pairs providers submit
Inputs == {<<U32(100), U32(10)>>}
LedgerInputs == {<<U32(100), U32(10)>>, <<U32(50), U32(5)>>, <<U32(0), U32(0)>>,
                 <<MaxUint32, U32(1)>>}

\* accepted submissions so far (each one adds once to the global total)
Submissions == Depth(totalEncryptedValue)

\* what a caller of myCallback can present: for a request the coprocessor
\* received, its decryption with the KMS signature; or a payload with a
\* proof the KMS did not sign
WrongCleartexts == <<U32(1), U32(1)>>
CallbackPayloads ==
    {<<Cleartexts(requests[i]), KmsProof(i - 1, Cleartexts(requests[i]))>> :
        i \in 1..Len(requests)}
    \cup {<<Cleartexts(requests[i]), Forged>> : i \in 1..Len(requests)}
    \cup {<<WrongCleartexts, Forged>>}

(* Every entry point, called by every address. *)
Next ==
    \/ \E sender \in Addr, newOwner \in Addr : TransferOwnership(sender, newOwner)
    \/ \E sender \in Addr, provider \in Addr : AddProvider(sender, provider)
    \/ \E sender \in Addr, provider \in Addr : RemoveProvider(sender, provider)
    \/ \E sender \in Addr, c \in CooldownChoices : SetCooldownSeconds(sender, c)
    \/ \E sender \in Addr : Pause(sender)
    \/ \E sender \in Addr : Unpause(sender)
    \/ \E sender \in Addr, batchId \in BatchIds : OpenBatch(sender, batchId)
    \/ \E sender \in Addr, batchId \in BatchIds : CloseBatch(sender, batchId)
    \/ \E sender \in Addr, batchId \in BatchIds, in \in Inputs :
           /\ Submissions < MaxSubmissions
           /\ SubmitData(sender, batchId, in[1], in[2])
    \/ \E sender \in Addr, batchId \in BatchIds :
           /\ Len(requests) < MaxRequests
           /\ RequestBatchDecryption(sender, batchId)
    \/ \E sender \in Addr, requestId \in RequestIds, p \in CallbackPayloads :
           MyCallback(sender, requestId, p[1], p[2])
    \/ Tick(MaxTicks)

Spec == Init /\ [][Next]_vars

(* The ledger and the decryption protocol under a fixed administration: the *)
(* owner registers providers and opens batches, and never transfers         *)
(* ownership, pauses, changes the cooldown, removes a provider or closes a  *)
(* batch.  More submissions, requests and inputs are explored than in Spec. *)
NextLedger ==
    \/ \E sender \in Addr, provider \in Addr : AddProvider(sender, provider)
    \/ \E sender \in Addr, batchId \in BatchIds : OpenBatch(sender, batchId)
    \/ \E sender \in Addr, batchId \in BatchIds, in \in LedgerInputs :
           /\ Submissions < LedgerMaxSubmissions
           /\ SubmitData(sender, batchId, in[1], in[2])
    \/ \E sender \in Addr, batchId \in BatchIds :
           /\ Len(requests) < LedgerMaxRequests
           /\ RequestBatchDecryption(sender, batchId)
    \/ \E sender \in Addr, requestId \in RequestIds, p \in CallbackPayloads :
           MyCallback(sender, requestId, p[1], p[2])
    \/ Tick(LedgerMaxTicks)

SpecLedger == Init /\ [][NextLedger]_vars

(* The ledger with a coprocessor that answers: for every request it        *)
(* received, the coprocessor keeps delivering the callback with the         *)
(* decryption of the requested handles and the KMS proof, until the         *)
(* contract accepts it.  The administration is the fixed one of SpecLedger; *)
(* one submission and two requests are explored.                            *)
NextLive ==
    \/ \E sender \in Addr, provider \in Addr : AddProvider(sender, provider)
    \/ \E sender \in Addr, batchId \in BatchIds : OpenBatch(sender, batchId)
    \/ \E sender \in Addr, batchId \in BatchIds, in \in Inputs :
           /\ Submissions < MaxSubmissions
           /\ SubmitData(sender, batchId, in[1], in[2])
    \/ \E sender \in Addr, batchId \in BatchIds :
           /\ Len(requests) < LedgerMaxRequests
           /\ RequestBatchDecryption(sender, batchId)
    \/ \E sender \in Addr, requestId \in RequestIds, p \in CallbackPayloads :
           MyCallback(sender, requestId, p[1], p[2])
    \/ Tick(LedgerMaxTicks)

Deliver(r) ==
    /\ r < Len(requests)
    /\ \E sender \in Addr :
           MyCallback(sender, r, Cleartexts(requests[r + 1]),
                      KmsProof(r, Cleartexts(requests[r + 1])))

SpecLive ==
    Init /\ [][NextLive]_vars /\ \A r \in RequestIds : WF_vars(Deliver(r))

(* A pending request under everything that can come between it and its     *)
(* callback, short of pausing: all entry points but pause and unpause, with *)
(* one submission and two requests, within one block timestamp (a second    *)
(* request follows a setCooldownSeconds(0) or a transfer of ownership).     *)
NextPending ==
    \/ \E sender \in Addr, newOwner \in Addr : TransferOwnership(sender, newOwner)
    \/ \E sender \in Addr, provider \in Addr : AddProvider(sender, provider)
    \/ \E sender \in Addr, provider \in Addr : RemoveProvider(sender, provider)
    \/ \E sender \in Addr, c \in CooldownChoices : SetCooldownSeconds(sender, c)
    \/ \E sender \in Addr, batchId \in BatchIds : OpenBatch(sender, batchId)
    \/ \E sender \in Addr, batchId \in BatchIds : CloseBatch(sender, batchId)
    \/ \E sender \in Addr, batchId \in BatchIds, in \in Inputs :
           /\ Submissions < MaxSubmissions
           /\ SubmitData(sender, batchId, in[1], in[2])
    \/ \E sender \in Addr, batchId \in BatchIds :
           /\ Len(requests) < LedgerMaxRequests
           /\ RequestBatchDecryption(sender, batchId)
    \/ \E sender \in Addr, requestId \in RequestIds, p \in CallbackPayloads :
           MyCallback(sender, requestId, p[1], p[2])

SpecPending == Init /\ [][NextPending]_vars

----------------------------------------------------------------------------
(* Vocabulary of the properties. *)

\* request ids the coprocessor has handed out
Issued == 0..(Len(requests) - 1)

\* positions of the log holding an event of one kind
EventsOf(kind) == {i \in DOMAIN log : log[i].event = kind}

\* positions of the DecryptionCompleted events of request r
CompletedAt(r) == {i \in EventsOf("DecryptionCompleted") : log[i].requestId = r}

\* position of the DecryptionRequested event of request r
RequestedAt(r) == {i \in EventsOf("DecryptionRequested") : log[i].requestId = r}

\* positions of the accepted submissions to batch b
SubmittedAt(b) == {i \in EventsOf("DataSubmitted") : log[i].batchId = b}

\* the coprocessor's answer to request r: its cleartexts and the KMS proof
HonestPayload(r) ==
    <<Cleartexts(requests[r + 1]), KmsProof(r, Cleartexts(requests[r + 1]))>>

\* every callback with request id r fails with the given error
EveryCallbackFails(r, error) ==
    \A p \in CallbackPayloads : myCallbackResult(r, p[1], p[2]) = error

----------------------------------------------------------------------------
(* C1: for every request id the callback is accepted at most once: the log  *)
(* holds at most one DecryptionCompleted per request id, a processed        *)
(* context stays processed, and while it is processed every callback with   *)
(* that request id fails with ReplayAttempt, whatever the payload, the      *)
(* proof and the batch's current ciphertexts.                               *)
C1_ReplayRejected ==
    /\ [](\A r \in RequestIds :
            /\ Cardinality(CompletedAt(r)) <= 1
            /\ decryptionContexts[r].processed => EveryCallbackFails(r, "ReplayAttempt"))
    /\ [][\A r \in RequestIds :
            decryptionContexts[r].processed => decryptionContexts'[r].processed]_vars

\* a request was finalized, its batch has since received a submission, and
\* the coprocessor's own answer is now a replay
C1_Witness ==
    \E r \in Issued :
        /\ decryptionContexts[r].processed
        /\ CompletedAt(r) # {}
        /\ _getCiphertexts(decryptionContexts[r].batchId) # requests[r + 1]
        /\ myCallbackResult(r, HonestPayload(r)[1], HonestPayload(r)[2]) = "ReplayAttempt"

----------------------------------------------------------------------------
(* C2: once a submission to batch b is accepted after request r on b was    *)
(* issued and before r was finalized, every callback for r fails with       *)
(* StateMismatch, also the coprocessor's own answer, and r stays            *)
(* unprocessed.                                                             *)

\* a submission to r's batch is logged after r's request while r was pending
LateSubmission(r) ==
    \E i \in SubmittedAt(decryptionContexts[r].batchId) :
        /\ \E j \in RequestedAt(r) : j < i
        /\ \A k \in CompletedAt(r) : i < k

C2_LateSubmissionMismatch ==
    \A r \in Issued :
        LateSubmission(r) =>
            /\ ~decryptionContexts[r].processed
            /\ EveryCallbackFails(r, "StateMismatch")

\* the late submission is of value 0 and shares 0
C2_Witness ==
    \E r \in Issued :
        /\ LateSubmission(r)
        /\ \E i \in SubmittedAt(decryptionContexts[r].batchId) :
              /\ \E j \in RequestedAt(r) : j < i
              /\ log[i].encryptedValue = asEuint32(U32(0))
              /\ log[i].encryptedShares = asEuint32(U32(0))
        /\ myCallbackResult(r, HonestPayload(r)[1], HonestPayload(r)[2]) = "StateMismatch"

----------------------------------------------------------------------------
(* C3: a submitData call is accepted exactly when the caller is a           *)
(* registered provider, the system is not paused, the batch exists and is   *)
(* open, and at least cooldownSeconds have elapsed since the caller's last  *)
(* accepted submission (time 0 for a caller with none); and                 *)
(* lastSubmissionTime changes only in an accepted submission, to the time   *)
(* of that call.                                                            *)

\* now - lastTime >= cooldownSeconds, over the integers
Elapsed(lastTime) == cooldownSeconds >= 0 /\ now - lastTime >= cooldownSeconds

C3_SubmissionAcceptedIff ==
    /\ [](\A sender \in Addr, b \in BatchIds :
            submitDataResult(sender, b) = "ok"
            <=> /\ isProvider[sender]
                /\ ~paused
                /\ batches[b].exists /\ ~batches[b].closed
                /\ Elapsed(lastSubmissionTime[sender]))
    /\ [][\A sender \in Addr :
            lastSubmissionTime'[sender] # lastSubmissionTime[sender] =>
                /\ lastSubmissionTime'[sender] = now
                /\ \E b \in BatchIds, in \in Inputs \cup LedgerInputs :
                      /\ submitDataResult(sender, b) = "ok"
                      /\ SubmitData(sender, b, in[1], in[2])]_vars

\* a provider has submitted, is inside its cooldown on an open batch and is
\* rejected; another provider is accepted on the same batch
C3_Witness ==
    \E p \in Addr, q \in Addr, b \in BatchIds :
        /\ lastSubmissionTime[p] = now
        /\ SubmittedAt(b) # {}
        /\ submitDataResult(p, b) = "CooldownActive"
        /\ submitDataResult(q, b) = "ok"

----------------------------------------------------------------------------
(* C4: the totals a DecryptionCompleted event carries.                      *)

\* the plaintexts of the accepted submissions at the log positions S
\* (wrapping: modulo 2^32; otherwise the sum itself)
RECURSIVE SumValues(_, _, _)
SumValues(S, field, wrapping) ==
    IF S = {} THEN U32(0)
    ELSE LET i == CHOOSE x \in S : TRUE
             rest == SumValues(S \ {i}, field, wrapping)
         IN IF wrapping THEN WrapAdd(rest, Decrypt(log[i][field]))
                        ELSE PlainAdd(rest, Decrypt(log[i][field]))

\* the accepted submissions to batch b logged before position k
SubmittedBefore(b, k) == {i \in SubmittedAt(b) : i < k}

\* every DecryptionCompleted event answers a logged request on the same
\* batch and carries the sums of all submissions accepted before it
CompletedTotals(wrapping) ==
    \A k \in EventsOf("DecryptionCompleted") :
        /\ \E j \in RequestedAt(log[k].requestId) :
              j < k /\ log[j].batchId = log[k].batchId
        /\ log[k].totalValue =
               SumValues(SubmittedBefore(log[k].batchId, k), "encryptedValue", wrapping)
        /\ log[k].totalShares =
               SumValues(SubmittedBefore(log[k].batchId, k), "encryptedShares", wrapping)

\* the coprocessor's answer to a pending request is accepted as long as no
\* submission to the batch followed the request
HonestCallbackAccepted ==
    \A r \in Issued :
        ~decryptionContexts[r].processed /\ ~LateSubmission(r) =>
            myCallbackResult(r, HonestPayload(r)[1], HonestPayload(r)[2]) = "ok"

(* C4 as stated: the event carries v1 + ... + vN and s1 + ... + sN.         *)
C4_PlainTotals == HonestCallbackAccepted /\ CompletedTotals(FALSE)

(* C4 as amended: the event carries the sums modulo 2^32 (the sums          *)
(* themselves while they are below 2^32).                                   *)
C4_WrappedTotals == HonestCallbackAccepted /\ CompletedTotals(TRUE)

\* (100, 10) then (50, 5), by two providers, decrypted as (150, 15)
C4_Witness ==
    \E k \in EventsOf("DecryptionCompleted") :
        /\ log[k].totalValue = U32(150)
        /\ log[k].totalShares = U32(15)
        /\ Cardinality({log[i].provider : i \in SubmittedBefore(log[k].batchId, k)}) = 2

----------------------------------------------------------------------------
(* C5: called by the owner while not paused, openBatch on an existing batch *)
(* id (open or closed) fails with InvalidBatch, closeBatch on an id never   *)
(* opened fails with BatchDoesNotExist and closeBatch on a closed batch     *)
(* fails with BatchClosed; no failed openBatch or closeBatch changes the    *)
(* batch registry.                                                          *)
C5_BatchErrors ==
    /\ [](~paused =>
            \A b \in BatchIds :
                /\ batches[b].exists => openBatchResult(owner, b) = "InvalidBatch"
                /\ ~batches[b].exists =>
                       closeBatchResult(owner, b) = "BatchDoesNotExist"
                /\ batches[b].exists /\ batches[b].closed =>
                       closeBatchResult(owner, b) = "BatchClosed")
    /\ [][\A sender \in Addr, b \in BatchIds :
              \/ openBatchResult(sender, b) # "ok" /\ OpenBatch(sender, b)
              \/ closeBatchResult(sender, b) # "ok" /\ CloseBatch(sender, b)
              => batches' = batches]_vars

\* one batch is closed and one id was never opened: the owner's calls meet
\* each of the three errors
C5_Witness ==
    /\ ~paused
    /\ \E b, c \in BatchIds :
          /\ batches[b].closed /\ ~batches[c].exists
          /\ openBatchResult(owner, b) = "InvalidBatch"
          /\ closeBatchResult(owner, b) = "BatchClosed"
          /\ closeBatchResult(owner, c) = "BatchDoesNotExist"

----------------------------------------------------------------------------
(* C6: every batch id moves only along nonexistent -> open -> closed:       *)
(* exists and closed are never reset, closed implies exists, and a batch's  *)
(* lifecycle state changes only in an openBatch call (nonexistent to open)  *)
(* or a closeBatch call (open to closed) on that id.                        *)
C6_BatchLifecycle ==
    /\ [](\A b \in BatchIds : batches[b].closed => batches[b].exists)
    /\ [][\A b \in BatchIds :
              /\ batches[b].exists => batches'[b].exists
              /\ batches[b].closed => batches'[b].closed
              /\ batches'[b] # batches[b] =>
                    \/ /\ ~batches[b].exists
                       /\ batches'[b] = [exists |-> TRUE, closed |-> FALSE]
                       /\ \E sender \in Addr : OpenBatch(sender, b)
                    \/ /\ batches[b].exists /\ ~batches[b].closed
                       /\ batches'[b] = [exists |-> TRUE, closed |-> TRUE]
                       /\ \E sender \in Addr : CloseBatch(sender, b)]_vars

\* a batch went through its whole lifecycle while another is still open and
\* has taken a submission and a decryption request
C6_Witness ==
    \E b, c \in BatchIds :
        /\ batches[b].closed
        /\ batches[c].exists /\ ~batches[c].closed
        /\ SubmittedAt(c) # {}
        /\ \E r \in Issued : decryptionContexts[r].batchId = c

----------------------------------------------------------------------------
(* C7: while the contract is paused, openBatch, closeBatch and              *)
(* requestBatchDecryption called by the owner and submitData called by a    *)
(* registered provider fail with Paused, and such a call leaves batches,    *)
(* submissions, totals, cooldown timestamps and decryption contexts         *)
(* unchanged.                                                               *)
PausableCall ==
    \E sender \in Addr, b \in BatchIds :
        \/ sender = owner /\ OpenBatch(sender, b)
        \/ sender = owner /\ CloseBatch(sender, b)
        \/ sender = owner /\ RequestBatchDecryption(sender, b)
        \/ isProvider[sender] /\ \E in \in Inputs : SubmitData(sender, b, in[1], in[2])

C7_PausedRejects ==
    /\ [](paused =>
            \A b \in BatchIds :
                /\ openBatchResult(owner, b) = "Paused"
                /\ closeBatchResult(owner, b) = "Paused"
                /\ requestBatchDecryptionResult(owner, b) = "Paused"
                /\ \A p \in Addr :
                       isProvider[p] => submitDataResult(p, b) = "Paused")
    /\ [][paused /\ PausableCall =>
              UNCHANGED <<batches, providerEncryptedValue, providerEncryptedShares,
                          batchEncryptedValue, batchEncryptedShares,
                          totalEncryptedValue, totalEncryptedShares,
                          lastSubmissionTime, lastDecryptionRequestTime,
                          decryptionContexts>>]_vars

\* paused with an open batch, a registered provider whose cooldown has
\* elapsed and nothing but the pause flag in the way of the four calls
C7_Witness ==
    /\ paused
    /\ \E b, c \in BatchIds, p \in Addr :
          /\ batches[b].exists /\ ~batches[b].closed /\ ~batches[c].exists
          /\ isProvider[p] /\ Elapsed(lastSubmissionTime[p])
          /\ Elapsed(lastDecryptionRequestTime[owner])
          /\ submitDataResult(p, b) = "Paused"
          /\ requestBatchDecryptionResult(owner, b) = "Paused"
          /\ closeBatchResult(owner, b) = "Paused"
          /\ openBatchResult(owner, c) = "Paused"

----------------------------------------------------------------------------
(* C8: while the contract is paused the decryption callback fails: no step  *)
(* taken in a paused state marks a decryption context processed or emits a  *)
(* DecryptionCompleted event.                                               *)
C8_PausedCallbackFails ==
    [][paused =>
          /\ \A r \in RequestIds :
                 decryptionContexts'[r].processed = decryptionContexts[r].processed
          /\ EventsOf("DecryptionCompleted")' = EventsOf("DecryptionCompleted")]_vars

----------------------------------------------------------------------------
(* C9: the nine owner-only operations, called by an address other than the  *)
(* current owner, fail with NotOwner and change nothing; an accepted        *)
(* transferOwnership(newOwner) makes newOwner the owner, the owner changes  *)
(* in no other way, and so the previous owner is rejected as any other      *)
(* address is.                                                              *)
OwnerOnlyCall(sender) ==
    \/ \E a \in Addr : \/ TransferOwnership(sender, a)
                       \/ AddProvider(sender, a)
                       \/ RemoveProvider(sender, a)
    \/ \E c \in CooldownChoices : SetCooldownSeconds(sender, c)
    \/ Pause(sender)
    \/ Unpause(sender)
    \/ \E b \in BatchIds : \/ OpenBatch(sender, b)
                           \/ CloseBatch(sender, b)
                           \/ RequestBatchDecryption(sender, b)

RejectedAsNotOwner(sender) ==
    /\ transferOwnershipResult(sender) = "NotOwner"
    /\ addProviderResult(sender) = "NotOwner"
    /\ removeProviderResult(sender) = "NotOwner"
    /\ setCooldownSecondsResult(sender) = "NotOwner"
    /\ pauseResult(sender) = "NotOwner"
    /\ unpauseResult(sender) = "NotOwner"
    /\ \A b \in BatchIds :
          /\ openBatchResult(sender, b) = "NotOwner"
          /\ closeBatchResult(sender, b) = "NotOwner"
          /\ requestBatchDecryptionResult(sender, b) = "NotOwner"

C9_OnlyOwner ==
    /\ [](\A sender \in Addr \ {owner} : RejectedAsNotOwner(sender))
    /\ [][/\ \A sender \in Addr \ {owner} : OwnerOnlyCall(sender) => UNCHANGED vars
          /\ \A sender, newOwner \in Addr :
                 transferOwnershipResult(sender) = "ok"
                     /\ TransferOwnership(sender, newOwner) => owner' = newOwner
          /\ owner' # owner => TransferOwnership(owner, owner')]_vars

\* the deployer handed the contract over and is now rejected, paused or not,
\* whatever batches exist
C9_Witness ==
    /\ owner # Deployer
    /\ RejectedAsNotOwner(Deployer)
    /\ transferOwnershipResult(owner) = "ok"
    /\ \E b \in BatchIds : batches[b].exists /\ ~batches[b].closed
    /\ ~paused

----------------------------------------------------------------------------
(* C10: every entry point is atomic: a step that is a rejected call,        *)
(* whatever the error, changes nothing of the contract's state and appends  *)
(* no event to the log.                                                     *)
RejectedCall ==
    \E sender \in Addr :
        \/ \E a \in Addr :
              \/ transferOwnershipResult(sender) # "ok" /\ TransferOwnership(sender, a)
              \/ addProviderResult(sender) # "ok" /\ AddProvider(sender, a)
              \/ removeProviderResult(sender) # "ok" /\ RemoveProvider(sender, a)
        \/ \E c \in CooldownChoices :
              setCooldownSecondsResult(sender) # "ok" /\ SetCooldownSeconds(sender, c)
        \/ pauseResult(sender) # "ok" /\ Pause(sender)
        \/ unpauseResult(sender) # "ok" /\ Unpause(sender)
        \/ \E b \in BatchIds :
              \/ openBatchResult(sender, b) # "ok" /\ OpenBatch(sender, b)
              \/ closeBatchResult(sender, b) # "ok" /\ CloseBatch(sender, b)
              \/ submitDataResult(sender, b) # "ok"
                     /\ \E in \in Inputs : SubmitData(sender, b, in[1], in[2])
              \/ requestBatchDecryptionResult(sender, b) # "ok"
                     /\ RequestBatchDecryption(sender, b)
        \/ \E r \in RequestIds, p \in CallbackPayloads :
              myCallbackResult(r, p[1], p[2]) # "ok" /\ MyCallback(sender, r, p[1], p[2])

C10_RejectedCallsChangeNothing ==
    [][UNCHANGED <<storage, log>> \/ ~RejectedCall]_vars

\* calls that fail late, after the modifiers and the cooldown check passed:
\* a submission to a closed batch, a request on a missing batch, a callback
\* with a forged proof, and a callback on a batch that changed
C10_Witness ==
    \E p \in Addr, b, c \in BatchIds, r \in Issued :
        /\ submitDataResult(p, b) = "BatchClosed"
        /\ requestBatchDecryptionResult(owner, c) = "BatchDoesNotExist"
        /\ myCallbackResult(r, HonestPayload(r)[1], Forged) \in {"InvalidProof", "StateMismatch"}
        /\ pauseResult(p) = "NotOwner"

----------------------------------------------------------------------------
(* C11: whoever the caller, a callback whose proof fails the signature      *)
(* check over (requestId, cleartexts) is never accepted: it marks no        *)
(* context processed and emits no DecryptionCompleted; on an unprocessed    *)
(* request whose batch still has the committed handles it fails with        *)
(* InvalidProof.                                                            *)
StateMatches(r) ==
    _hashCiphertexts(decryptionContexts[r].batchId) = decryptionContexts[r].stateHash

C11_InvalidProofRejected ==
    /\ [](\A r \in RequestIds, p \in CallbackPayloads :
            ~checkSignatures(r, p[1], p[2]) =>
                /\ myCallbackResult(r, p[1], p[2]) # "ok"
                /\ ~decryptionContexts[r].processed /\ StateMatches(r) =>
                       myCallbackResult(r, p[1], p[2]) = "InvalidProof")
    /\ [][\/ UNCHANGED <<decryptionContexts, log>>
          \/ \A sender \in Addr, r \in RequestIds, p \in CallbackPayloads :
                 ~(~checkSignatures(r, p[1], p[2]) /\ MyCallback(sender, r, p[1], p[2]))]_vars

\* two pending requests with different cleartexts: a forged proof, and the
\* KMS proof of the other request, both fail with InvalidProof
C11_Witness ==
    \E r, q \in Issued :
        /\ r # q
        /\ ~decryptionContexts[r].processed /\ StateMatches(r)
        /\ HonestPayload(q)[1] # HonestPayload(r)[1]
        /\ myCallbackResult(r, HonestPayload(r)[1], Forged) = "InvalidProof"
        /\ myCallbackResult(r, HonestPayload(q)[1], HonestPayload(q)[2]) = "InvalidProof"

----------------------------------------------------------------------------
(* C12: called by the owner while not paused and outside the decryption     *)
(* cooldown, requestBatchDecryption succeeds on every existing batch, open  *)
(* or closed, with or without submissions, and fails with BatchDoesNotExist *)
(* on a batch never opened; no caller meets BatchDoesNotExist on an         *)
(* existing batch.                                                          *)
C12_RequestOnAnyExistingBatch ==
    \A b \in BatchIds :
        /\ ~paused /\ Elapsed(lastDecryptionRequestTime[owner]) =>
               /\ batches[b].exists => requestBatchDecryptionResult(owner, b) = "ok"
               /\ ~batches[b].exists =>
                      requestBatchDecryptionResult(owner, b) = "BatchDoesNotExist"
        /\ \A sender \in Addr :
               requestBatchDecryptionResult(sender, b) = "BatchDoesNotExist" =>
                   ~batches[b].exists

\* a closed batch without any submission: one request on it was accepted,
\* the next would be; a request on the other id, never opened, would fail
C12_Witness ==
    \E b, c \in BatchIds :
        /\ batches[b].closed /\ SubmittedAt(b) = {}
        /\ \E r \in Issued : decryptionContexts[r].batchId = b
        /\ requestBatchDecryptionResult(owner, b) = "ok"
        /\ requestBatchDecryptionResult(owner, c) = "BatchDoesNotExist"

----------------------------------------------------------------------------
(* C13: every accepted requestBatchDecryption(batchId) sends the            *)
(* coprocessor exactly the batch's value handle and shares handle, in that  *)
(* order, as they are at the time of the request, and stores under the      *)
(* request id the coprocessor returns a context with that batchId,          *)
(* processed = false and the commitment over those two handles; the event   *)
(* carries the same id, batch and hash.                                     *)
RequestEffect(b) ==
    LET requestId == Len(requests)
        handles == <<batchEncryptedValue[b], batchEncryptedShares[b]>>
        commitment == keccak256(handles, This)
    IN /\ requests' = Append(requests, handles)
       /\ decryptionContexts' =
              [decryptionContexts EXCEPT
                  ![requestId] = [batchId |-> b, stateHash |-> commitment,
                                  processed |-> FALSE]]
       /\ log' = Append(log, DecryptionRequested(requestId, b, commitment))

C13_RequestStoresCommitment ==
    /\ [](\A r \in Issued :
            /\ decryptionContexts[r].stateHash = keccak256(requests[r + 1], This)
            /\ \E j \in RequestedAt(r) :
                   /\ log[j].batchId = decryptionContexts[r].batchId
                   /\ log[j].stateHash = decryptionContexts[r].stateHash)
    /\ [][\/ UNCHANGED <<requests, decryptionContexts, log>>
          \/ \A sender \in Addr, b \in BatchIds :
                 requestBatchDecryptionResult(sender, b) = "ok"
                     /\ RequestBatchDecryption(sender, b) => RequestEffect(b)]_vars

\* a pending request taken after a submission: the value handle and the
\* shares handle differ, and the context commits to them in that order
C13_Witness ==
    \E r \in Issued :
        LET b == decryptionContexts[r].batchId
        IN /\ SubmittedAt(b) # {}
           /\ ~decryptionContexts[r].processed
           /\ requests[r + 1] = <<batchEncryptedValue[b], batchEncryptedShares[b]>>
           /\ batchEncryptedValue[b] # batchEncryptedShares[b]
           /\ decryptionContexts[r].stateHash = keccak256(requests[r + 1], This)

----------------------------------------------------------------------------
(* C14: there is exactly one decryption context per issued request id and   *)
(* none for any other id; a context's batchId and stateHash never change    *)
(* after its creation and its processed flag only goes from false to true,  *)
(* whatever is called afterwards, a later requestBatchDecryption included.  *)
C14_ContextImmutable ==
    /\ [](\A r \in RequestIds :
            /\ r \in Issued => Cardinality(RequestedAt(r)) = 1
            /\ r \notin Issued => decryptionContexts[r] = NoContext /\ RequestedAt(r) = {})
    /\ [][\A r \in Issued :
              /\ decryptionContexts'[r].batchId = decryptionContexts[r].batchId
              /\ decryptionContexts'[r].stateHash = decryptionContexts[r].stateHash
              /\ decryptionContexts[r].processed => decryptionContexts'[r].processed]_vars

\* a processed context and a later request on another batch
C14_Witness ==
    \E r, q \in Issued :
        /\ r < q
        /\ decryptionContexts[r].processed /\ ~decryptionContexts[q].processed
        /\ decryptionContexts[r].batchId # decryptionContexts[q].batchId
        /\ decryptionContexts[r].stateHash # decryptionContexts[q].stateHash

----------------------------------------------------------------------------
(* C15: an accepted callback changes nothing of the contract's state but    *)
(* the processed flag of its own request's context: owner, providers,       *)
(* cooldown and its timestamps, pause flag, batches, every ciphertext       *)
(* handle and total and all other contexts are unchanged, and the decrypted *)
(* totals go to the DecryptionCompleted event only.                         *)
CallbackEffect(r, cleartexts) ==
    /\ decryptionContexts' = [decryptionContexts EXCEPT ![r].processed = TRUE]
    /\ log' = Append(log, DecryptionCompleted(r, decryptionContexts[r].batchId,
                              abiDecode(cleartexts).totalValue,
                              abiDecode(cleartexts).totalShares))
    /\ UNCHANGED <<owner, isProvider, lastSubmissionTime, lastDecryptionRequestTime,
                   cooldownSeconds, paused, batches, totalEncryptedValue,
                   totalEncryptedShares, batchEncryptedValue, batchEncryptedShares,
                   providerEncryptedValue, providerEncryptedShares>>

C15_CallbackFrame ==
    [][\/ UNCHANGED <<storage, log>>
       \/ \A sender \in Addr, r \in RequestIds, p \in CallbackPayloads :
              myCallbackResult(r, p[1], p[2]) = "ok" /\ MyCallback(sender, r, p[1], p[2])
                  => CallbackEffect(r, p[1])]_vars

\* a callback reporting totals other than zero was accepted, and the batch
\* and global handles are those of the submissions, nothing else
C15_Witness ==
    \E r \in Issued, k \in EventsOf("DecryptionCompleted") :
        /\ log[k].requestId = r /\ decryptionContexts[r].processed
        /\ log[k].totalValue # U32(0) /\ log[k].totalShares # U32(0)
        /\ \E q \in Issued : ~decryptionContexts[q].processed
        /\ _getCiphertexts(decryptionContexts[r].batchId) = requests[r + 1]
        /\ Depth(totalEncryptedValue) = Cardinality(EventsOf("DataSubmitted"))

----------------------------------------------------------------------------
(* C16: the per-provider record of (batch, provider) holds the encryption   *)
(* of that provider's latest accepted pair only, while the batch totals and *)
(* the global totals take in every accepted pair, repeated submissions of   *)
(* one provider to one batch included.                                      *)

\* positions of provider p's accepted submissions to batch b
SubmittedBy(b, p) == {i \in SubmittedAt(b) : log[i].provider = p}

Latest(S) == CHOOSE i \in S : \A j \in S : j <= i

LatestRecordOnly ==
    \A b \in BatchIds, p \in Addr :
        IF SubmittedBy(b, p) = {}
        THEN /\ providerEncryptedValue[b][p] = Uninit
             /\ providerEncryptedShares[b][p] = Uninit
        ELSE /\ providerEncryptedValue[b][p] = log[Latest(SubmittedBy(b, p))].encryptedValue
             /\ providerEncryptedShares[b][p] = log[Latest(SubmittedBy(b, p))].encryptedShares

TotalsTakeAll(wrapping) ==
    /\ \A b \in BatchIds :
          /\ Decrypt(batchEncryptedValue[b]) =
                 SumValues(SubmittedAt(b), "encryptedValue", wrapping)
          /\ Decrypt(batchEncryptedShares[b]) =
                 SumValues(SubmittedAt(b), "encryptedShares", wrapping)
    /\ Decrypt(totalEncryptedValue) =
           SumValues(EventsOf("DataSubmitted"), "encryptedValue", wrapping)
    /\ Decrypt(totalEncryptedShares) =
           SumValues(EventsOf("DataSubmitted"), "encryptedShares", wrapping)

\* the claim's case: every accepted submission so far is one of provider p
\* to batch b, and there are at least two
OnlyRepeated(b, p) ==
    /\ Cardinality(SubmittedBy(b, p)) >= 2
    /\ EventsOf("DataSubmitted") = SubmittedBy(b, p)

(* C16 as stated: the totals are v1 + ... + vk and s1 + ... + sk.           *)
C16_RecordLatestTotalsPlain ==
    /\ LatestRecordOnly
    /\ \A b \in BatchIds, p \in Addr : OnlyRepeated(b, p) => TotalsTakeAll(FALSE)

(* C16 as amended: the totals are those sums modulo 2^32.                   *)
C16_RecordLatestTotalsWrapped == LatestRecordOnly /\ TotalsTakeAll(TRUE)

\* one provider submitted twice to one batch, with different pairs: the
\* record is the second pair, the batch total is the sum of both
C16_Witness ==
    \E b \in BatchIds, p \in Addr :
        /\ OnlyRepeated(b, p)
        /\ \E i \in SubmittedBy(b, p) : log[i].encryptedValue # providerEncryptedValue[b][p]
        /\ Decrypt(batchEncryptedValue[b]) # Decrypt(providerEncryptedValue[b][p])
        /\ Decrypt(batchEncryptedValue[b]) = U32(150)
        /\ Decrypt(totalEncryptedShares) = U32(15)

----------------------------------------------------------------------------
(* C17: the plaintext of the global value total is the sum over all batches *)
(* of the plaintexts of the batch value totals, and likewise for shares;    *)
(* both are the sum over all accepted submitData calls; and a step that     *)
(* changes any total is an accepted submitData call.                        *)

\* the sum of the 32-bit values f[b], b in S
RECURSIVE SumOver(_, _, _)
SumOver(f, S, wrapping) ==
    IF S = {} THEN U32(0)
    ELSE LET b == CHOOSE x \in S : TRUE
             rest == SumOver(f, S \ {b}, wrapping)
         IN IF wrapping THEN WrapAdd(rest, f[b]) ELSE PlainAdd(rest, f[b])

GlobalIsSumOfBatches(wrapping) ==
    /\ Decrypt(totalEncryptedValue) =
           SumOver([b \in BatchIds |-> Decrypt(batchEncryptedValue[b])], BatchIds, wrapping)
    /\ Decrypt(totalEncryptedShares) =
           SumOver([b \in BatchIds |-> Decrypt(batchEncryptedShares[b])], BatchIds, wrapping)
    /\ Decrypt(totalEncryptedValue) =
           SumValues(EventsOf("DataSubmitted"), "encryptedValue", wrapping)
    /\ Decrypt(totalEncryptedShares) =
           SumValues(EventsOf("DataSubmitted"), "encryptedShares", wrapping)

OnlySubmitDataChangesTotals ==
    [][\/ UNCHANGED <<totalEncryptedValue, totalEncryptedShares,
                      batchEncryptedValue, batchEncryptedShares>>
       \/ \E sender \in Addr, b \in BatchIds, in \in Inputs \cup LedgerInputs :
              /\ submitDataResult(sender, b) = "ok"
              /\ SubmitData(sender, b, in[1], in[2])]_vars

(* C17 as stated: the sums are sums of integers.                            *)
C17_GlobalTotalsPlain == [](GlobalIsSumOfBatches(FALSE)) /\ OnlySubmitDataChangesTotals

(* C17 as amended: the sums are taken modulo 2^32.                          *)
C17_GlobalTotalsWrapped == [](GlobalIsSumOfBatches(TRUE)) /\ OnlySubmitDataChangesTotals

\* two batches took one submission each: (100, 10) and (50, 5)
C17_Witness ==
    /\ \A b \in BatchIds : Cardinality(SubmittedAt(b)) = 1
    /\ Decrypt(totalEncryptedValue) = U32(150)
    /\ Decrypt(totalEncryptedShares) = U32(15)

----------------------------------------------------------------------------
(* C18: every encrypted amount is initialized before its first use: no      *)
(* accepted submitData adds to a global total or a batch total that is an   *)
(* uninitialized handle, and no accepted requestBatchDecryption hashes or   *)
(* sends an uninitialized handle.                                           *)
C18_InitializedBeforeUse ==
    /\ [](\A r \in Issued :
            isInitialized(requests[r + 1][1]) /\ isInitialized(requests[r + 1][2]))
    /\ [][\/ UNCHANGED <<batchEncryptedValue, batchEncryptedShares>>
          \/ \A sender \in Addr, b \in BatchIds, in \in Inputs \cup LedgerInputs :
                 submitDataResult(sender, b) = "ok" /\ SubmitData(sender, b, in[1], in[2]) =>
                     /\ isInitialized(_initIfNeeded(totalEncryptedValue))
                     /\ isInitialized(_initIfNeeded(totalEncryptedShares))
                     /\ isInitialized(batchEncryptedValue[b])
                     /\ isInitialized(batchEncryptedShares[b])]_vars

----------------------------------------------------------------------------
(* C19: with a coprocessor that keeps delivering the valid callback of      *)
(* every request it received, every issued request is eventually answered   *)
(* by one accepted callback.                                                *)

(* C19 as stated: every context is eventually processed.                    *)
C19_EveryRequestAnswered ==
    \A r \in RequestIds : (r \in Issued) ~> decryptionContexts[r].processed

(* C19 as amended: every context is eventually processed unless a           *)
(* submission to its batch was accepted after the request and before any    *)
(* callback; such a context is never processed; no request is answered      *)
(* twice.                                                                   *)
C19_AnsweredUnlessLateSubmission ==
    /\ \A r \in RequestIds :
           (r \in Issued) ~> (decryptionContexts[r].processed \/ LateSubmission(r))
    /\ [](\A r \in Issued :
            /\ LateSubmission(r) => ~decryptionContexts[r].processed
            /\ Cardinality(CompletedAt(r)) <= 1)

\* one request was answered, another lost its answer to a late submission
C19_Witness ==
    \E r, q \in Issued :
        /\ decryptionContexts[r].processed /\ Cardinality(CompletedAt(r)) = 1
        /\ ~decryptionContexts[q].processed /\ LateSubmission(q)

----------------------------------------------------------------------------
(* C20: called by the owner, while not paused, requestBatchDecryption fails *)
(* with CooldownActive exactly when the current time is less than the       *)
(* owner's last accepted decryption-request time plus cooldownSeconds,      *)
(* whatever batch it targets; the time is the caller's own, so a new owner  *)
(* is not throttled by the requests of the previous one.                    *)
C20_DecryptionCooldown ==
    ~paused =>
        \A b \in BatchIds :
            requestBatchDecryptionResult(owner, b) = "CooldownActive"
                <=> ~Elapsed(lastDecryptionRequestTime[owner])

----------------------------------------------------------------------------
(* C21: the two cooldowns are independent and per address: submitData is    *)
(* throttled by the caller's own last submission only and leaves            *)
(* lastDecryptionRequestTime and the other addresses' lastSubmissionTime    *)
(* alone; requestBatchDecryption is throttled by the caller's own last      *)
(* request only and leaves lastSubmissionTime alone.                        *)
C21_CooldownsIndependent ==
    /\ [](\A a \in Addr, b \in BatchIds :
            /\ submitDataResult(a, b) \in {"CooldownActive", "Panic"} =>
                   ~Elapsed(lastSubmissionTime[a])
            /\ isProvider[a] /\ ~paused /\ Elapsed(lastSubmissionTime[a]) =>
                   submitDataResult(a, b) \in {"ok", "BatchDoesNotExist", "BatchClosed"}
            /\ requestBatchDecryptionResult(a, b) \in {"CooldownActive", "Panic"} =>
                   ~Elapsed(lastDecryptionRequestTime[a])
            /\ a = owner /\ ~paused /\ Elapsed(lastDecryptionRequestTime[a]) =>
                   requestBatchDecryptionResult(a, b) \in {"ok", "BatchDoesNotExist"})
    /\ [][\/ UNCHANGED <<lastSubmissionTime, lastDecryptionRequestTime>>
          \/ \A sender \in Addr, b \in BatchIds :
                /\ (\E in \in Inputs : SubmitData(sender, b, in[1], in[2])) =>
                       /\ lastDecryptionRequestTime' = lastDecryptionRequestTime
                       /\ \A q \in Addr \ {sender} :
                              lastSubmissionTime'[q] = lastSubmissionTime[q]
                /\ RequestBatchDecryption(sender, b) =>
                       /\ lastSubmissionTime' = lastSubmissionTime
                       /\ \A q \in Addr \ {sender} :
                              lastDecryptionRequestTime'[q] = lastDecryptionRequestTime[q]]_vars

\* the owner, also a provider, had a submission and a decryption request
\* accepted at the same timestamp, inside a cooldown of 60 s; another
\* provider is not delayed by that submission
C21_Witness ==
    \E a, q \in Addr, b \in BatchIds :
        /\ a = owner /\ isProvider[a] /\ q # a /\ isProvider[q]
        /\ cooldownSeconds = InitialCooldown
        /\ lastSubmissionTime[a] = now /\ lastDecryptionRequestTime[a] = now
        /\ \E i \in SubmittedAt(b) : log[i].provider = a
        /\ \E r \in Issued : decryptionContexts[r].batchId = b
        /\ submitDataResult(a, b) = "CooldownActive"
        /\ submitDataResult(q, b) = "ok"

----------------------------------------------------------------------------
(* C22: lastSubmissionTime[p] is the timestamp of p's most recent accepted  *)
(* submitData call and 0 if there is none: an accepted call sets it to the  *)
(* current time and nothing else changes it, a call rejected after the      *)
(* cooldown check included; likewise lastDecryptionRequestTime and          *)
(* requestBatchDecryption.                                                  *)
AcceptedSubmitBy(p) ==
    \E b \in BatchIds, in \in Inputs :
        submitDataResult(p, b) = "ok" /\ SubmitData(p, b, in[1], in[2])

AcceptedRequestBy(a) ==
    \E b \in BatchIds :
        requestBatchDecryptionResult(a, b) = "ok" /\ RequestBatchDecryption(a, b)

C22_TimestampOfLastAccepted ==
    /\ [](/\ \A p \in Addr :
                (\A i \in EventsOf("DataSubmitted") : log[i].provider # p) =>
                    lastSubmissionTime[p] = 0
          /\ Issued = {} => \A a \in Addr : lastDecryptionRequestTime[a] = 0)
    /\ [][\A p \in Addr :
              /\ AcceptedSubmitBy(p) => lastSubmissionTime'[p] = now
              /\ lastSubmissionTime'[p] # lastSubmissionTime[p] => AcceptedSubmitBy(p)
              /\ AcceptedRequestBy(p) => lastDecryptionRequestTime'[p] = now
              /\ lastDecryptionRequestTime'[p] # lastDecryptionRequestTime[p] =>
                     AcceptedRequestBy(p)]_vars

\* a provider whose window has elapsed since its accepted submission: calls
\* that pass the cooldown check and fail on the batch are possible, as is a
\* request on a missing batch by the owner of an earlier request
C22_Witness ==
    \E p \in Addr, b, c \in BatchIds :
        /\ \E i \in SubmittedAt(b) : log[i].provider = p
        /\ 0 < lastSubmissionTime[p] /\ lastSubmissionTime[p] < now
        /\ submitDataResult(p, b) = "BatchClosed"
        /\ submitDataResult(p, c) = "BatchDoesNotExist"
        /\ 0 < lastDecryptionRequestTime[owner]
        /\ requestBatchDecryptionResult(owner, c) = "BatchDoesNotExist"

----------------------------------------------------------------------------
(* C23: addProvider(a) and removeProvider(a) by the owner always succeed    *)
(* and set isProvider[a] to true, resp. false, whatever it was: applied a   *)
(* second time they change nothing, the later of the two decides the flag,  *)
(* and no other address's flag, no submission record, no total and nothing  *)
(* else changes.                                                            *)
MembershipFrame ==
    UNCHANGED <<owner, lastSubmissionTime, lastDecryptionRequestTime, cooldownSeconds,
                paused, decryptionContexts, batches, totalEncryptedValue,
                totalEncryptedShares, batchEncryptedValue, batchEncryptedShares,
                providerEncryptedValue, providerEncryptedShares, requests, log>>

C23_MembershipIdempotent ==
    /\ [](addProviderResult(owner) = "ok" /\ removeProviderResult(owner) = "ok")
    /\ [][\/ UNCHANGED storage
          \/ \A a \in Addr :
                /\ AddProvider(owner, a) =>
                       isProvider' = [isProvider EXCEPT ![a] = TRUE] /\ MembershipFrame
                /\ RemoveProvider(owner, a) =>
                       isProvider' = [isProvider EXCEPT ![a] = FALSE] /\ MembershipFrame]_vars

\* an address was added, submitted and was removed again, while the other
\* address stayed a provider: the record and the totals are still there
C23_Witness ==
    \E a, q \in Addr, b \in BatchIds :
        /\ ~isProvider[a] /\ isProvider[q] /\ a # q
        /\ isInitialized(providerEncryptedValue[b][a])
        /\ Decrypt(totalEncryptedValue) = Decrypt(providerEncryptedValue[b][a])
        /\ Decrypt(totalEncryptedValue) # U32(0)
        /\ submitDataResult(a, b) = "NotProvider"

----------------------------------------------------------------------------
(* C24: pause() by the owner fails with Paused while the contract is paused *)
(* and leaves it paused, and sets paused = true otherwise; unpause() by the *)
(* owner always succeeds and leaves paused = false, also when the contract  *)
(* was not paused.                                                          *)
C24_PauseUnpause ==
    /\ [](/\ paused => pauseResult(owner) = "Paused"
          /\ ~paused => pauseResult(owner) = "ok"
          /\ unpauseResult(owner) = "ok")
    /\ [][/\ Pause(owner) => paused'
          /\ Unpause(owner) => ~paused'
          /\ paused' # paused =>
                 \/ ~paused /\ Pause(owner)
                 \/ paused /\ Unpause(owner)]_vars

\* paused by an owner other than the deployer: a second pause would fail,
\* unpause would succeed
C24_Witness ==
    /\ paused /\ owner # Deployer
    /\ pauseResult(owner) = "Paused"
    /\ unpauseResult(owner) = "ok"
    /\ pauseResult(Deployer) = "NotOwner"

----------------------------------------------------------------------------
(* C25: every failure of an entry point is one of the ten typed errors:     *)
(* whatever cooldownSeconds the owner has set and whatever the timestamps,  *)
(* no call to submitData or requestBatchDecryption, nor to any other entry  *)
(* point, fails with an arithmetic-overflow panic.                          *)
TypedErrors ==
    {"NotOwner", "NotProvider", "Paused", "CooldownActive", "BatchDoesNotExist",
     "BatchClosed", "InvalidBatch", "ReplayAttempt", "StateMismatch", "InvalidProof"}

C25_OnlyTypedErrors ==
    \A sender \in Addr :
        /\ {transferOwnershipResult(sender), addProviderResult(sender),
            removeProviderResult(sender), setCooldownSecondsResult(sender),
            pauseResult(sender), unpauseResult(sender)} \subseteq TypedErrors \cup {"ok"}
        /\ \A b \in BatchIds :
               {openBatchResult(sender, b), closeBatchResult(sender, b),
                submitDataResult(sender, b), requestBatchDecryptionResult(sender, b)}
                   \subseteq TypedErrors \cup {"ok"}
        /\ \A r \in RequestIds, p \in CallbackPayloads :
               myCallbackResult(r, p[1], p[2]) \in TypedErrors \cup {"ok"}

----------------------------------------------------------------------------
(* C26: the commitment is a function of exactly the batch's value handle,   *)
(* its shares handle and the contract's address: equal handles give equal   *)
(* hashes, a change of either handle gives another hash, and a second       *)
(* instance of the contract, at another address, computes another hash over *)
(* the same handles, so a hash stored by this instance never matches the    *)
(* state of the other.                                                      *)

\* the address of a second deployment of the contract, holding the same handles
OtherInstance == "RealEstateBondFHE#2"

C26_CommitmentBinding ==
    /\ \A b, c \in BatchIds :
           _hashCiphertexts(b) = _hashCiphertexts(c) <=>
               /\ batchEncryptedValue[b] = batchEncryptedValue[c]
               /\ batchEncryptedShares[b] = batchEncryptedShares[c]
    /\ \A r \in Issued, b \in BatchIds :
           /\ decryptionContexts[r].stateHash = _hashCiphertexts(b) <=>
                  /\ requests[r + 1][1] = batchEncryptedValue[b]
                  /\ requests[r + 1][2] = batchEncryptedShares[b]
           /\ decryptionContexts[r].stateHash # keccak256(_getCiphertexts(b), OtherInstance)
           /\ decryptionContexts[r].stateHash # keccak256(requests[r + 1], OtherInstance)

\* two requests on one batch, one before and one after a submission: the
\* first hash no longer matches, the second does, and the other batch,
\* still empty, hashes as the first request did
C26_Witness ==
    \E r, q \in Issued, c \in BatchIds :
        LET b == decryptionContexts[r].batchId
        IN /\ decryptionContexts[q].batchId = b /\ c # b
           /\ decryptionContexts[r].stateHash # _hashCiphertexts(b)
           /\ decryptionContexts[q].stateHash = _hashCiphertexts(b)
           /\ decryptionContexts[r].stateHash = _hashCiphertexts(c)

----------------------------------------------------------------------------
(* C27: a callback rejected with StateMismatch or InvalidProof has no side  *)
(* effect: the processed flag stays false and nothing else changes, so an   *)
(* unprocessed request whose batch still has the committed handles accepts  *)
(* the callback with the valid proof, whatever callbacks were rejected      *)
(* before.                                                                  *)
C27_RejectedCallbackNoEffect ==
    /\ [](\A r \in Issued :
            ~decryptionContexts[r].processed /\ StateMatches(r) =>
                myCallbackResult(r, HonestPayload(r)[1], HonestPayload(r)[2]) = "ok")
    /\ [][\/ UNCHANGED <<storage, log>>
          \/ \A sender \in Addr, r \in RequestIds, p \in CallbackPayloads :
                 ~(/\ myCallbackResult(r, p[1], p[2]) \in {"StateMismatch", "InvalidProof"}
                   /\ MyCallback(sender, r, p[1], p[2]))]_vars

\* a pending request that rejects a forged proof and accepts the valid one,
\* next to a pending request that a submission has put out of reach
C27_Witness ==
    \E r, q \in Issued :
        /\ ~decryptionContexts[r].processed /\ ~decryptionContexts[q].processed
        /\ myCallbackResult(r, HonestPayload(r)[1], Forged) = "InvalidProof"
        /\ myCallbackResult(r, HonestPayload(r)[1], HonestPayload(r)[2]) = "ok"
        /\ myCallbackResult(q, HonestPayload(q)[1], HonestPayload(q)[2]) = "StateMismatch"

----------------------------------------------------------------------------
(* C28: the callback's outcome is that of the first failing check in the    *)
(* order processed, hash, proof: ReplayAttempt whenever the context is      *)
(* processed, otherwise StateMismatch whenever the recomputed hash differs  *)
(* from the stored one, otherwise InvalidProof when the proof check fails,  *)
(* and acceptance only when all three checks pass.                          *)
C28_CallbackCheckOrder ==
    \A r \in RequestIds, p \in CallbackPayloads :
        /\ decryptionContexts[r].processed =>
               myCallbackResult(r, p[1], p[2]) = "ReplayAttempt"
        /\ ~decryptionContexts[r].processed /\ ~StateMatches(r) =>
               myCallbackResult(r, p[1], p[2]) = "StateMismatch"
        /\ ~decryptionContexts[r].processed /\ StateMatches(r)
               /\ ~checkSignatures(r, p[1], p[2]) =>
               myCallbackResult(r, p[1], p[2]) = "InvalidProof"
        /\ myCallbackResult(r, p[1], p[2]) = "ok" <=>
               /\ ~decryptionContexts[r].processed
               /\ StateMatches(r)
               /\ checkSignatures(r, p[1], p[2])

\* a processed request and a pending one, both overtaken by a submission:
\* a forged proof meets ReplayAttempt on the first and StateMismatch on the
\* second
C28_Witness ==
    \E r, q \in Issued :
        /\ decryptionContexts[r].processed /\ ~StateMatches(r)
        /\ myCallbackResult(r, WrongCleartexts, Forged) = "ReplayAttempt"
        /\ ~decryptionContexts[q].processed /\ ~StateMatches(q)
        /\ myCallbackResult(q, WrongCleartexts, Forged) = "StateMismatch"

----------------------------------------------------------------------------
(* C29: submitData reports the first failing precondition in the order      *)
(* NotProvider, Paused, CooldownActive, BatchDoesNotExist, BatchClosed: a   *)
(* non-provider gets NotProvider also while paused, and a provider inside   *)
(* its cooldown gets CooldownActive also on a missing or closed batch.      *)
C29_SubmitCheckOrder ==
    \A sender \in Addr, b \in BatchIds :
        submitDataResult(sender, b) =
            IF ~isProvider[sender] THEN "NotProvider"
            ELSE IF paused THEN "Paused"
            ELSE IF ~Elapsed(lastSubmissionTime[sender]) THEN "CooldownActive"
            ELSE IF ~batches[b].exists THEN "BatchDoesNotExist"
            ELSE IF batches[b].closed THEN "BatchClosed"
            ELSE "ok"

----------------------------------------------------------------------------
(* C30: while the contract is paused the owner's transferOwnership,         *)
(* addProvider, removeProvider, setCooldownSeconds and unpause all succeed, *)
(* and one step, the owner's unpause, leads to a state with paused = false: *)
(* pausing never locks the contract.                                        *)
C30_AdminWhilePaused ==
    paused =>
        /\ transferOwnershipResult(owner) = "ok"
        /\ addProviderResult(owner) = "ok"
        /\ removeProviderResult(owner) = "ok"
        /\ setCooldownSecondsResult(owner) = "ok"
        /\ unpauseResult(owner) = "ok"
        /\ ENABLED (Unpause(owner) /\ ~paused')
        /\ \A a \in Addr :
               /\ ENABLED (AddProvider(owner, a) /\ isProvider'[a])
               /\ ENABLED (RemoveProvider(owner, a) /\ ~isProvider'[a])
               /\ ENABLED (TransferOwnership(owner, a) /\ owner' = a)
        /\ \A c \in CooldownChoices :
               ENABLED (SetCooldownSeconds(owner, c) /\ cooldownSeconds' = c)

\* paused with a pending request, a provider and an open batch
C30_Witness ==
    /\ paused
    /\ \E a \in Addr : isProvider[a]
    /\ \E b \in BatchIds : batches[b].exists /\ ~batches[b].closed
    /\ \E r \in Issued : ~decryptionContexts[r].processed
    /\ unpauseResult(owner) = "ok"
    /\ \A b \in BatchIds : openBatchResult(owner, b) = "Paused"

----------------------------------------------------------------------------
(* C31: no callback is accepted for a request id that no                    *)
(* requestBatchDecryption has issued: its context is the empty slot, the    *)
(* recomputed hash of batch 0 is not the zero hash, and the call fails with *)
(* StateMismatch also when the proof passes the signature check; so every   *)
(* DecryptionCompleted event follows a DecryptionRequested event with the   *)
(* same request id and batch id.                                            *)

\* cleartexts a caller can present for a request id
AnyCleartexts == {p[1] : p \in CallbackPayloads}

C31_UnknownRequestRejected ==
    /\ \A r \in RequestIds \ Issued :
          /\ decryptionContexts[r] = NoContext
          /\ _hashCiphertexts(0) # ZeroHash
          /\ CompletedAt(r) = {}
          /\ \A c \in AnyCleartexts :
                 /\ checkSignatures(r, c, KmsProof(r, c))
                 /\ myCallbackResult(r, c, KmsProof(r, c)) = "StateMismatch"
          /\ EveryCallbackFails(r, "StateMismatch")
    /\ \A k \in EventsOf("DecryptionCompleted") :
          \E j \in RequestedAt(log[k].requestId) :
              j < k /\ log[j].batchId = log[k].batchId

\* a request on batch 0 was answered, batch 0 still has the handles of that
\* request, and a callback for an id never issued, with a proof that passes
\* the signature check, fails
C31_Witness ==
    \E r \in RequestIds \ Issued, q \in Issued :
        /\ decryptionContexts[q].batchId = 0 /\ decryptionContexts[q].processed
        /\ StateMatches(q)
        /\ CompletedAt(q) # {}
        /\ myCallbackResult(r, HonestPayload(q)[1], KmsProof(r, HonestPayload(q)[1]))
               = "StateMismatch"

----------------------------------------------------------------------------
(* C32: a state mismatch is permanent: once a submission to batch b was     *)
(* accepted after request r on b was issued, the batch's handles never      *)
(* return to those r committed to and no callback for r is accepted in any  *)
(* later state; a fresh requestBatchDecryption gets an id not used before   *)
(* and a new context that commits to the current handles, leaves the older  *)
(* contexts as they are, and its callback can be accepted.                  *)

\* a submission to r's batch is logged after r's request
SubmissionAfterRequest(r) ==
    \E i \in SubmittedAt(decryptionContexts[r].batchId) :
        \E j \in RequestedAt(r) : j < i

FreshRequestEffect(b) ==
    LET q == nextRequestId
    IN /\ q \notin Issued
       /\ \A r \in Issued : decryptionContexts'[r] = decryptionContexts[r]
       /\ decryptionContexts'[q].batchId = b
       /\ ~decryptionContexts'[q].processed
       /\ decryptionContexts'[q].stateHash = _hashCiphertexts(b)'

C32_MismatchPermanent ==
    /\ [](\A r \in Issued :
            /\ SubmissionAfterRequest(r) =>
                   /\ ~StateMatches(r)
                   /\ _getCiphertexts(decryptionContexts[r].batchId) # requests[r + 1]
                   /\ \A p \in CallbackPayloads : myCallbackResult(r, p[1], p[2]) # "ok"
            /\ ~SubmissionAfterRequest(r) /\ ~decryptionContexts[r].processed =>
                   myCallbackResult(r, HonestPayload(r)[1], HonestPayload(r)[2]) = "ok")
    /\ [][/\ \A r \in Issued :
                /\ ~StateMatches(r) => ~StateMatches(r)'
                /\ SubmissionAfterRequest(r) => SubmissionAfterRequest(r)'
          /\ \/ UNCHANGED <<requests, decryptionContexts>>
             \/ \A sender \in Addr, b \in BatchIds :
                    requestBatchDecryptionResult(sender, b) = "ok"
                        /\ RequestBatchDecryption(sender, b) => FreshRequestEffect(b)]_vars

\* request r was overtaken by a submission of (0, 0); the fresh request q on
\* the same batch commits to the new handles and can be finalized, r cannot
C32_Witness ==
    \E r, q \in Issued :
        /\ r < q /\ decryptionContexts[q].batchId = decryptionContexts[r].batchId
        /\ SubmissionAfterRequest(r) /\ ~SubmissionAfterRequest(q)
        /\ Cleartexts(requests[r + 1]) = Cleartexts(requests[q + 1])
        /\ myCallbackResult(r, HonestPayload(r)[1], HonestPayload(r)[2]) = "StateMismatch"
        /\ myCallbackResult(q, HonestPayload(q)[1], HonestPayload(q)[2]) = "ok"

----------------------------------------------------------------------------
(* C33: after closeBatch(b) the batch's value handle and shares handle      *)
(* never change again, whatever is called: every submitData on b is         *)
(* rejected, and no step changes the two handles; so a decryption request   *)
(* issued on b once it is closed always finds the committed handles and no  *)
(* callback for it fails with StateMismatch.                                *)
C33_ClosedBatchFrozen ==
    /\ [](\A b \in BatchIds :
            batches[b].closed =>
                \A sender \in Addr : submitDataResult(sender, b) # "ok")
    /\ [][\A b \in BatchIds :
              batches[b].closed =>
                  /\ batchEncryptedValue'[b] = batchEncryptedValue[b]
                  /\ batchEncryptedShares'[b] = batchEncryptedShares[b]]_vars
    /\ \A b \in BatchIds, r \in RequestIds :
          [](batches[b].closed /\ r \notin Issued =>
                [](r \in Issued /\ decryptionContexts[r].batchId = b =>
                      /\ StateMatches(r)
                      /\ \A p \in CallbackPayloads :
                             myCallbackResult(r, p[1], p[2]) # "StateMismatch"))

\* a closed batch holding a submission: a provider outside its cooldown is
\* turned away with BatchClosed, and the request on the batch was answered
\* with the handles it committed to still in place
C33_Witness ==
    \E b \in BatchIds, p \in Addr, r \in Issued :
        /\ batches[b].closed /\ SubmittedAt(b) # {}
        /\ submitDataResult(p, b) = "BatchClosed"
        /\ decryptionContexts[r].batchId = b /\ decryptionContexts[r].processed
        /\ StateMatches(r)
        /\ Decrypt(requests[r + 1][1]) # U32(0)

----------------------------------------------------------------------------
(* C34: a pending request r on batch b stays finalizable as long as no      *)
(* submission to b is accepted: b's commitment changes in no step but an    *)
(* accepted submitData on b, so after submissions to other batches,         *)
(* closeBatch(b), openBatch, transferOwnership, addProvider,                *)
(* removeProvider, setCooldownSeconds and other decryption requests the     *)
(* callback for r with the valid proof is accepted, whoever calls it.       *)
C34_PendingStaysFinalizable ==
    /\ [](\A r \in Issued :
            ~decryptionContexts[r].processed /\ ~SubmissionAfterRequest(r) =>
                /\ StateMatches(r)
                /\ myCallbackResult(r, HonestPayload(r)[1], HonestPayload(r)[2]) = "ok"
                /\ \A sender \in Addr :
                       ENABLED (/\ MyCallback(sender, r, HonestPayload(r)[1],
                                              HonestPayload(r)[2])
                                /\ decryptionContexts'[r].processed))
    /\ [][\/ UNCHANGED <<batchEncryptedValue, batchEncryptedShares>>
          \/ \A b \in BatchIds :
                 _hashCiphertexts(b)' # _hashCiphertexts(b) =>
                     \E sender \in Addr, in \in Inputs :
                         /\ submitDataResult(sender, b) = "ok"
                         /\ SubmitData(sender, b, in[1], in[2])]_vars

\* request r on b is pending; since it was issued the other batch took a
\* submission, b was closed, the cooldown was changed, ownership went to
\* another address and a second request was issued
C34_Witness ==
    \E r, q \in Issued, c \in BatchIds :
        LET b == decryptionContexts[r].batchId
        IN /\ r < q /\ c # b
           /\ ~decryptionContexts[r].processed
           /\ batches[b].closed
           /\ \E i \in SubmittedAt(c), j \in RequestedAt(r) : j < i
           /\ owner # Deployer /\ ~isProvider[Deployer]
           /\ cooldownSeconds # InitialCooldown
           /\ myCallbackResult(r, HonestPayload(r)[1], HonestPayload(r)[2]) = "ok"

----------------------------------------------------------------------------
(* C35: two decryption requests can be outstanding on one batch, issued at  *)
(* least cooldownSeconds apart with no submission in between: they have     *)
(* distinct request ids and separate contexts with the same stateHash, each *)
(* is finalized at most once and in either order, and finalizing one        *)
(* neither marks the other processed nor keeps its callback from being      *)
(* accepted.                                                                *)

\* r and q are two requests on one batch over the same handles
Twins(r, q) ==
    /\ r # q
    /\ decryptionContexts[r].batchId = decryptionContexts[q].batchId
    /\ requests[r + 1] = requests[q + 1]

HonestResult(r) == myCallbackResult(r, HonestPayload(r)[1], HonestPayload(r)[2])

C35_ConcurrentRequests ==
    /\ [](/\ Cardinality(Issued) >= 2 => now >= StartTime + cooldownSeconds
          /\ \A r \in Issued : Cardinality(CompletedAt(r)) <= 1
          /\ \A r, q \in Issued :
                Twins(r, q) =>
                    /\ decryptionContexts[r].stateHash = decryptionContexts[q].stateHash
                    /\ Cardinality(RequestedAt(r) \cup RequestedAt(q)) = 2
                    /\ StateMatches(r) /\ ~decryptionContexts[r].processed =>
                           HonestResult(r) = "ok"
                    /\ decryptionContexts[q].processed =>
                           HonestResult(q) = "ReplayAttempt"
                    /\ decryptionContexts[r].processed <=> CompletedAt(r) # {})
    /\ [][\/ UNCHANGED decryptionContexts
          \/ \A r, q \in Issued :
                 r # q /\ decryptionContexts'[r].processed # decryptionContexts[r].processed
                     => decryptionContexts'[q] = decryptionContexts[q]]_vars

\* two requests on a batch holding a submission, both finalized, the later
\* request first
C35_Witness ==
    \E r, q \in Issued :
        /\ Twins(r, q) /\ r < q
        /\ SubmittedAt(decryptionContexts[r].batchId) # {}
        /\ decryptionContexts[r].processed /\ decryptionContexts[q].processed
        /\ \E i \in CompletedAt(r), j \in CompletedAt(q) : j < i
        /\ log[Latest(CompletedAt(r))].totalValue = log[Latest(CompletedAt(q))].totalValue

----------------------------------------------------------------------------
(* C36: the running totals are unsigned 32-bit values: whether submitData   *)
(* accepts a call does not depend on the submitted values or on the totals, *)
(* an accepted call adds to the batch totals and the global totals modulo   *)
(* 2^32, and so a total's plaintext equals the sum of the accepted values   *)
(* exactly while that sum is below 2^32; the callback reports the wrapped   *)
(* total.                                                                   *)

\* the plaintext of a total is the sum of the values at the log positions S
\* exactly when that sum fits 32 bits, and is the sum modulo 2^32 always
WrapsAt32Bits(total, S, field) ==
    /\ Decrypt(total) = SumValues(S, field, TRUE)
    /\ Decrypt(total).hi < Limb
    /\ Decrypt(total) = SumValues(S, field, FALSE)
           <=> SumValues(S, field, FALSE).hi < Limb

AddsModulo(b, value, shares) ==
    /\ Decrypt(batchEncryptedValue'[b]) = WrapAdd(Decrypt(batchEncryptedValue[b]), value)
    /\ Decrypt(batchEncryptedShares'[b]) = WrapAdd(Decrypt(batchEncryptedShares[b]), shares)
    /\ Decrypt(totalEncryptedValue') = WrapAdd(Decrypt(totalEncryptedValue), value)
    /\ Decrypt(totalEncryptedShares') = WrapAdd(Decrypt(totalEncryptedShares), shares)

C36_TotalsWrapAt32Bits ==
    /\ [](/\ \A b \in BatchIds :
                /\ WrapsAt32Bits(batchEncryptedValue[b], SubmittedAt(b), "encryptedValue")
                /\ WrapsAt32Bits(batchEncryptedShares[b], SubmittedAt(b), "encryptedShares")
          /\ WrapsAt32Bits(totalEncryptedValue, EventsOf("DataSubmitted"), "encryptedValue")
          /\ WrapsAt32Bits(totalEncryptedShares, EventsOf("DataSubmitted"), "encryptedShares")
          /\ \A k \in EventsOf("DecryptionCompleted") :
                log[k].totalValue =
                    SumValues(SubmittedBefore(log[k].batchId, k), "encryptedValue", TRUE)
          /\ \A sender \in Addr, b \in BatchIds, in \in LedgerInputs :
                submitDataResult(sender, b) = "ok" =>
                    ENABLED (/\ SubmitData(sender, b, in[1], in[2])
                             /\ lastSubmissionTime'[sender] = now
                             /\ Len(log') = Len(log) + 1))
    /\ [][\/ UNCHANGED <<batchEncryptedValue, batchEncryptedShares>>
          \/ \A sender \in Addr, b \in BatchIds, in \in LedgerInputs :
                 submitDataResult(sender, b) = "ok" /\ SubmitData(sender, b, in[1], in[2])
                     => /\ AddsModulo(b, in[1], in[2])
                        /\ log' = Append(log, DataSubmitted(sender, b, asEuint32(in[1]),
                                                            asEuint32(in[2])))]_vars

\* 2^32 - 1 and 100 were accepted on one batch; the total is 99, and that is
\* what the answered request reports
C36_Witness ==
    \E b \in BatchIds, k \in EventsOf("DecryptionCompleted") :
        /\ log[k].batchId = b
        /\ SumValues(SubmittedAt(b), "encryptedValue", FALSE).hi >= Limb
        /\ Decrypt(batchEncryptedValue[b]) = U32(99)
        /\ Decrypt(totalEncryptedValue) = U32(99)
        /\ log[k].totalValue = U32(99)

----------------------------------------------------------------------------
(* C37: the cooldown check uses the cooldownSeconds in force at the call:   *)
(* with a cooldown of 0 a provider is accepted again at the timestamp of    *)
(* its last submission; whenever the current time is less than the caller's *)
(* last accepted time plus the current cooldownSeconds, also after the      *)
(* cooldown was raised past a window that had elapsed, the call is rejected *)
(* with CooldownActive; setCooldownSeconds by the owner succeeds also while *)
(* paused and changes no timestamp.                                         *)
C37_CurrentCooldownDecides ==
    /\ [](/\ setCooldownSecondsResult(owner) = "ok"
          /\ ~paused =>
                \A a \in Addr, b \in BatchIds :
                    /\ isProvider[a] /\ cooldownSeconds = 0 =>
                           submitDataResult(a, b) \in {"ok", "BatchDoesNotExist", "BatchClosed"}
                    /\ isProvider[a] /\ ~Elapsed(lastSubmissionTime[a]) =>
                           submitDataResult(a, b) = "CooldownActive"
                    /\ a = owner /\ cooldownSeconds = 0 =>
                           requestBatchDecryptionResult(a, b) \in {"ok", "BatchDoesNotExist"}
                    /\ a = owner /\ ~Elapsed(lastDecryptionRequestTime[a]) =>
                           requestBatchDecryptionResult(a, b) = "CooldownActive")
    /\ [][\A sender \in Addr, c \in CooldownChoices :
              SetCooldownSeconds(sender, c) =>
                  UNCHANGED <<lastSubmissionTime, lastDecryptionRequestTime>>]_vars

====
